---------------------------- MODULE Spec2Model ----------------------------
(***************************************************************************)
(* Verification model of the CP tariff extraction pipeline:                *)
(*   - AIDataProcessor.process_tariff_data and its rule-based / AI merge   *)
(*     (backend/app/document_processor/ai_data_processor.py)               *)
(*   - ProductionOCRProcessor rate extraction and deduplication            *)
(*     (backend/app/document_processor/production_ocr_processor.py)        *)
(*   - CPTariffDatabase.save_tariff_document_complete                      *)
(*     (backend/app/database/cp_tariff_database.py)                        *)
(*   - the document endpoints of backend/app/main.py                       *)
(* Each subsystem has its own specification (SpecAI, SpecRates, SpecDb,    *)
(* SpecApi); a specification leaves the other subsystems' variables idle.  *)
(***************************************************************************)
EXTENDS Integers, Sequences, FiniteSets, TLC

VARIABLES
    \* ---- AIDataProcessor.process_tariff_data ----
    raw_text,          \* the raw OCR text handed to the pipeline
    rule_based_data,   \* what _rule_based_extraction produces for the text
    ai_available,      \* self.ai_available and self.openai_client
    ai_outcome,        \* how the OpenAI call ends
    ai_enhanced_data,  \* the JSON object the AI returns (when it returns one)
    final_data,        \* the record process_tariff_data returns
    returned,          \* whether process_tariff_data has returned
    \* ---- ProductionOCRProcessor.process_document_data ----
    ocr_input,         \* raw_ocr_data, with what the regex scans find in it
    prod_result,       \* the record process_document_data returns
    prod_returned,     \* whether process_document_data has returned
    \* ---- CPTariffDatabase.save_tariff_document_complete ----
    save_input,        \* the rows to save and how the database answers
    db_committed,      \* the rows the database holds committed
    save_result,       \* what the save returned
    \* ---- the document endpoints of main.py ----
    api_request,       \* the upload, the configuration and the stage outcomes
    api_handler,       \* the handler that served the request
    api_response,      \* what the caller receives
    \* ---- CPTariffDatabase.parse_tariff_date / EnhancedDataProcessor._parse_date ----
    date_str,          \* the date string to parse
    tariff_date,       \* what parse_tariff_date returned
    parsed_date,       \* what _parse_date returned
    \* ---- the note extractors of the OCR engines ----
    note_input,        \* what the note patterns find in the text
    notes_out,         \* the notes the extractor returns
    notes_by,          \* the extractor that ran
    \* ---- one EnhancedDataProcessor instance ----
    processing_stats,  \* the counters of the instance
    proc_doc,          \* the raw data of the last call
    proc_record,       \* the record the last call returned
    proc_calls,        \* the number of calls so far
    \* ---- the sink of cp_tariff_database_fixed.py ----
    fixed_input,       \* the record and the behaviour of the database
    fixed_result,      \* what save_document returned
    fixed_committed,   \* whether the transaction was committed
    \* ---- the state/province lookup ----
    location,          \* the words of the location text, in order
    state_code,        \* what _extract_state_from_location returned
    \* ---- the asynchronous endpoint of main.py ----
    task_request,      \* the upload and how its stages would end
    task_pc,           \* "none", "rejected", "queued" or "done"
    task_mem,          \* background_tasks_status[task_id]
    task_files,        \* the files of the task in TEMP_FOLDER
    poll_response,     \* the last answer of get_task_status
    poll_reported,     \* the first terminal status the client was told
    task_aged,         \* the files of the task are older than 24 hours
    \* ---- the validation of an upload in main.py ----
    upload_file,       \* the name and the size of the uploaded file
    upload_handler,    \* the endpoint that received it
    upload_outcome,    \* the HTTP status, and what the handler did
    \* ---- the classification of one line as a note ----
    note_line,         \* what the patterns see in the line
    line_note,         \* the type of the note the line yields, or "none"
    line_by,           \* the classifier that ran
    \* ---- the rows of a table in table mode ----
    table_lines,       \* the kinds of the lines of the text, in order
    table_rows,        \* the (header, row) pairs that yielded data
    table_by,          \* the extractor that ran
    \* ---- the confidence of a rate table ----
    conf_table,        \* the rows of the rate table
    conf_score,        \* the <<score, checks>> the confidence is the quotient of
    conf_done,         \* whether the confidence was calculated
    \* ---- several asynchronous tasks at once ----
    multi_request,     \* the request of each task
    multi_pc,          \* where each task stands
    multi_mem,         \* background_tasks_status, by task_id
    multi_files,       \* the files of TEMP_FOLDER, by task_id
    multi_ran,         \* the task_id of the background task that ran last, 0 if none
    \* ---- get_database_connection ----
    conn_log,          \* the outcomes of the calls of pyodbc.connect, in order
    conn_retry_count,  \* retry_count
    conn_last_error,   \* self.last_error
    conn_return        \* whether the call returned, and the attempt whose connection it returned (0: None)

aiVars == <<raw_text, rule_based_data, ai_available, ai_outcome,
            ai_enhanced_data, final_data, returned>>

prodVars == <<ocr_input, prod_result, prod_returned>>

dbVars == <<save_input, db_committed, save_result>>

apiVars == <<api_request, api_handler, api_response>>

dateVars == <<date_str, tariff_date, parsed_date>>

noteVars == <<note_input, notes_out, notes_by>>

procVars == <<processing_stats, proc_doc, proc_record, proc_calls>>

fixedVars == <<fixed_input, fixed_result, fixed_committed>>

stateVars == <<location, state_code>>

taskVars == <<task_request, task_pc, task_mem, task_files, poll_response,
              poll_reported, task_aged>>

uploadVars == <<upload_file, upload_handler, upload_outcome>>

lineVars == <<note_line, line_note, line_by>>

tableVars == <<table_lines, table_rows, table_by>>

confVars == <<conf_table, conf_score, conf_done>>

multiVars == <<multi_request, multi_pc, multi_mem, multi_files, multi_ran>>

connVars == <<conn_log, conn_retry_count, conn_last_error, conn_return>>

vars == <<aiVars, prodVars, dbVars, apiVars,
         dateVars,
         noteVars,
         procVars,
         fixedVars,
         stateVars,
         taskVars,
         uploadVars,
         lineVars,
         tableVars,
         confVars,
         multiVars,
         connVars>>

-----------------------------------------------------------------------------
(* Bounds of the model.                                                    *)
MaxRuleRates == 1
MaxAIRates == 1
MaxRuleNotes == 1
MaxAINotes == 1
MaxCandidates == 2
MaxRows == 2
MaxNoteMatches == 2
MaxDocuments == 2
MaxItems == 1
MaxWords == 3
MaxTableLines == 6
MaxTableRows == 5
MaxTasks == 3

SeqUpTo(S, n) == UNION {[1..k -> S] : k \in 0..n}

-----------------------------------------------------------------------------
(* Python values of a header field.  A field of a dict is absent (the key  *)
(* is not in the dict), an int, or a str.                                  *)
Absent == [t |-> "absent", n |-> 0, s |-> ""]
IntV(i) == [t |-> "int", n |-> i, s |-> ""]
StrV(x) == [t |-> "str", n |-> 0, s |-> x]

\* Python truthiness: `not v` is true of 0 and of "".
Truthy(v) == CASE v.t = "int" -> v.n # 0
               [] v.t = "str" -> v.s # ""
               [] OTHER -> FALSE

HeaderFields == {"item_number", "revision"}

EmptyHeader == [k \in HeaderFields |-> Absent]

\* _extract_header_data: item_number is the matched digits (never empty),
\* revision is int(matched digits), so 0 for "REVISION: 0".
RuleHeaders == [item_number : {Absent, StrV("70001")},
                revision : {Absent, IntV(0), IntV(5)}]

AIHeaders == [item_number : {Absent, StrV("70002"), StrV("")},
              revision : {Absent, IntV(7)}]

\* Rates, notes and commodities as the dicts the extractors build.
Rate(o, d, a) == [origin |-> o, destination |-> d, rate_amount |-> a]
RuleRate == Rate("VANCOUVER BC", "CHICAGO IL", "52.75")
AIRateSet == {Rate("VANCOUVER BC", "CHICAGO IL", "52.75"),
              Rate("CALGARY AB", "CHICAGO IL", "61.00")}

\* A note dict; has_text is whether the dict has the key 'text'.
Note(ty, tx) == [type |-> ty, text |-> tx, has_text |-> TRUE]
NoTextNote == [type |-> "NUMBERED", text |-> "", has_text |-> FALSE]
RuleNote == Note("NUMBERED", "Rates are in US Dollars per car.")
AINoteSet == {Note("NUMBERED", "Rates are in US Dollars per car."),
              Note("PROVISION", "Subject to fuel surcharge."),
              NoTextNote}

RuleCommodities == <<[name |-> "WHEAT", stcc_code |-> "0113700"]>>
AICommodities == <<[name |-> "Wheat", stcc_code |-> "01137"],
                   [name |-> "Barley", stcc_code |-> "01131"]>>

\* The results _rule_based_extraction can produce for a document.
RuleBasedResults ==
    [header : RuleHeaders,
     commodities : {RuleCommodities},
     rates : SeqUpTo({RuleRate}, MaxRuleRates),
     notes : SeqUpTo({RuleNote}, MaxRuleNotes),
     origin_info : {"Vancouver Bc"},
     destination_info : {""}]

NoData == [header |-> EmptyHeader, commodities |-> <<>>, rates |-> <<>>,
           notes |-> <<>>, origin_info |-> "", destination_info |-> ""]

\* The JSON objects the AI can return.  keys is the set of keys of the dict;
\* rates_null is a JSON null under "rates".  A field whose key is absent
\* keeps its default.
EmptyDict == [keys |-> {}, header |-> EmptyHeader, rates_null |-> FALSE,
              rates |-> <<>>, notes |-> <<>>, commodities |-> <<>>,
              origin_info |-> "", destination_info |-> ""]

AIHeaderChoices == {[keys |-> {}, header |-> EmptyHeader]}
    \cup {[keys |-> {"header"}, header |-> h] : h \in AIHeaders}
AIRateChoices == {[keys |-> {}, rates_null |-> FALSE, rates |-> <<>>],
                  [keys |-> {"rates"}, rates_null |-> TRUE, rates |-> <<>>]}
    \cup {[keys |-> {"rates"}, rates_null |-> FALSE, rates |-> r] :
             r \in SeqUpTo(AIRateSet, MaxAIRates)}
AINoteChoices == {[keys |-> {}, notes |-> <<>>]}
    \cup {[keys |-> {"notes"}, notes |-> n] : n \in SeqUpTo(AINoteSet, MaxAINotes)}
AICommodityChoices == {[keys |-> {}, commodities |-> <<>>],
                       [keys |-> {"commodities"}, commodities |-> AICommodities]}
AILocationChoices ==
    {[keys |-> {}, origin_info |-> "", destination_info |-> ""],
     [keys |-> {"origin_info", "destination_info"},
      origin_info |-> "VANCOUVER BC CANADA", destination_info |-> "CHICAGO IL"]}

AIResponses ==
    {[keys |-> h.keys \cup r.keys \cup n.keys \cup c.keys \cup l.keys,
      header |-> h.header, rates_null |-> r.rates_null, rates |-> r.rates,
      notes |-> n.notes, commodities |-> c.commodities,
      origin_info |-> l.origin_info, destination_info |-> l.destination_info] :
        h \in AIHeaderChoices, r \in AIRateChoices, n \in AINoteChoices,
        c \in AICommodityChoices, l \in AILocationChoices}

\* How the OpenAI call ends: a JSON object, a JSON object wrapped in other
\* text, text holding no JSON object, a timeout, a network error.
AIOutcomes == {"json", "json_in_text", "invalid_json", "timeout", "network_error"}

\* Raw texts: None, the empty string, a text of fewer than 10 characters
\* after strip(), and a document.
NoneText == "<None>"
ShortText == "  ITEM 7  "
DocText == "<the text of a tariff document>"
RawTexts == {NoneText, "", ShortText, DocText}

\* len(raw_text.strip())
StrippedLen(t) == CASE t = ShortText -> Len("ITEM 7")
                    [] t = NoneText -> 0
                    [] OTHER -> Len(t)

-----------------------------------------------------------------------------
(* AIDataProcessor._ai_enhanced_extraction: a timeout or a network error   *)
(* is re-raised; a response that is a JSON object, or holds one between    *)
(* its first "{" and last "}", is returned parsed; any other response      *)
(* returns the empty dict.                                                  *)
AIEnhancedExtraction(outcome, payload) ==
    CASE outcome \in {"timeout", "network_error"} ->
             [raised |-> TRUE, value |-> EmptyDict]
      [] outcome = "invalid_json" -> [raised |-> FALSE, value |-> EmptyDict]
      [] OTHER -> [raised |-> FALSE, value |-> payload]

\* `not ai_enhanced`: the dict has no key.
IsEmptyDict(ai) == ai.keys = {}

\* The header loop of the merge: an AI value is stored under a key that is
\* not in the rule-based header or whose rule-based value is falsy.
MergeHeader(rh, ah) ==
    [k \in HeaderFields |->
        IF ah[k].t # "absent" /\ (rh[k].t = "absent" \/ ~Truthy(rh[k]))
        THEN ah[k] ELSE rh[k]]

\* A rates stage that also takes the AI rates when the counts are equal.
MergeRates_OnTie(rule_rates, ai_rates) ==
    IF Len(ai_rates) >= Len(rule_rates) THEN ai_rates ELSE rule_rates

\* The rates stage of the merge, for an AI dict that holds a list of rates.
MergeRates(rule_rates, ai_rates) ==
    IF Len(ai_rates) > Len(rule_rates) THEN ai_rates ELSE rule_rates

\* A notes loop that appends every AI note.
RECURSIVE AppendAINotes_All(_, _, _)
AppendAINotes_All(acc, existing, ainotes) ==
    IF ainotes = <<>> THEN [raised |-> FALSE, notes |-> acc]
    ELSE IF ~Head(ainotes).has_text THEN [raised |-> TRUE, notes |-> acc]
    ELSE AppendAINotes_All(Append(acc, Head(ainotes)), existing,
                           Tail(ainotes))

\* The notes loop of the merge.  existing is computed once, before the loop;
\* note['text'] raises KeyError on a note without the key, leaving the notes
\* appended so far in the list.
RECURSIVE AppendAINotes(_, _, _)
AppendAINotes(acc, existing, ainotes) ==
    IF ainotes = <<>> THEN [raised |-> FALSE, notes |-> acc]
    ELSE LET n == Head(ainotes) IN
         IF ~n.has_text THEN [raised |-> TRUE, notes |-> acc]
         ELSE AppendAINotes(IF n.text \in existing THEN acc ELSE Append(acc, n),
                            existing, Tail(ainotes))

NoteTexts(notes) == {notes[i].text : i \in 1..Len(notes)}

\* A buggy merge that returns the AI side when there is nothing to merge.
MergeAbsent_ReturnsAI(rule_based, ai_enhanced) ==
    [raised |-> FALSE, merged |-> NoData, rule_after |-> rule_based]

\* merged = rule_based.copy(); if not ai_enhanced: return merged
MergeAbsent(rule_based, ai_enhanced) ==
    [raised |-> FALSE, merged |-> rule_based, rule_after |-> rule_based]

(* AIDataProcessor._merge_extraction_results.  merged is a shallow copy of *)
(* rule_based: merged['header'] and merged['notes'] are the very dict and  *)
(* list of rule_based, so the header and notes stages write through to     *)
(* rule_based, while the rates / commodities / location stages rebind keys *)
(* of the copy only.  The result gives the merged record, whether a stage  *)
(* raised, and rule_based as the call leaves it (rule_after).              *)
MergeExtractionResults(rule_based, ai_enhanced) ==
    IF IsEmptyDict(ai_enhanced) THEN MergeAbsent(rule_based, ai_enhanced)
    ELSE
    LET header1 == IF "header" \in ai_enhanced.keys
                   THEN MergeHeader(rule_based.header, ai_enhanced.header)
                   ELSE rule_based.header
        \* len(ai_enhanced['rates']) raises TypeError on null
        ratesRaise == "rates" \in ai_enhanced.keys /\ ai_enhanced.rates_null
        rates1 == IF "rates" \in ai_enhanced.keys /\ ~ai_enhanced.rates_null
                  THEN MergeRates(rule_based.rates, ai_enhanced.rates)
                  ELSE rule_based.rates
        notesRes == IF "notes" \in ai_enhanced.keys /\ ~ratesRaise
                    THEN AppendAINotes(rule_based.notes,
                                       NoteTexts(rule_based.notes),
                                       ai_enhanced.notes)
                    ELSE [raised |-> FALSE, notes |-> rule_based.notes]
        raised == ratesRaise \/ notesRes.raised
        commodities1 ==
            IF "commodities" \in ai_enhanced.keys
               /\ Len(ai_enhanced.commodities) > Len(rule_based.commodities)
            THEN ai_enhanced.commodities ELSE rule_based.commodities
        origin1 ==
            IF "origin_info" \in ai_enhanced.keys /\ ai_enhanced.origin_info # ""
               /\ Len(ai_enhanced.origin_info) > Len(rule_based.origin_info)
            THEN ai_enhanced.origin_info ELSE rule_based.origin_info
        destination1 ==
            IF "destination_info" \in ai_enhanced.keys
               /\ ai_enhanced.destination_info # ""
               /\ Len(ai_enhanced.destination_info) > Len(rule_based.destination_info)
            THEN ai_enhanced.destination_info ELSE rule_based.destination_info
    IN [raised |-> raised,
        merged |-> [header |-> header1, commodities |-> commodities1,
                    rates |-> rates1, notes |-> notesRes.notes,
                    origin_info |-> origin1, destination_info |-> destination1],
        rule_after |-> [rule_based EXCEPT !.header = header1,
                                          !.notes = notesRes.notes]]

\* _create_metadata: the metadata dict has extraction_method and no
\* extraction_success key.
WithMetadata(data, method) ==
    [header |-> data.header, commodities |-> data.commodities,
     rates |-> data.rates, notes |-> data.notes,
     origin_info |-> data.origin_info,
     destination_info |-> data.destination_info,
     extraction_method |-> method, extraction_success |-> "absent"]

\* AIDataProcessor._empty_result
AIEmptyResult == WithMetadata(NoData, "EMPTY_INPUT")

\* `not raw_text or len(raw_text.strip()) < 10`
InsufficientText(t) == t = NoneText \/ t = "" \/ StrippedLen(t) < 10

\* The try block of process_tariff_data raises: the AI call raises, or the
\* merge raises on what the AI returned.
AIStepRaises(outcome, rule_based, payload) ==
    LET ex == AIEnhancedExtraction(outcome, payload) IN
    ex.raised \/ MergeExtractionResults(rule_based, ex.value).raised

(* AIDataProcessor.process_tariff_data as a function of its inputs.  On an *)
(* exception in the try block final_data is rule_based_data, the object    *)
(* the merge may already have written to.                                  *)
ProcessTariffDataResult(text, rule_based, available, outcome, payload) ==
    IF InsufficientText(text) THEN AIEmptyResult
    ELSE IF available THEN
        LET ex == AIEnhancedExtraction(outcome, payload) IN
        IF ex.raised THEN WithMetadata(rule_based, "RULE_BASED_FALLBACK")
        ELSE LET m == MergeExtractionResults(rule_based, ex.value) IN
             IF m.raised THEN WithMetadata(m.rule_after, "RULE_BASED_FALLBACK")
             ELSE WithMetadata(m.merged, "AI_ENHANCED")
    ELSE WithMetadata(rule_based, "RULE_BASED_ONLY")

NoRecord == WithMetadata(NoData, "NONE")

InitAI ==
    /\ raw_text \in RawTexts
    /\ rule_based_data \in (IF InsufficientText(raw_text) THEN {NoData}
                            ELSE RuleBasedResults)
    /\ ai_available \in BOOLEAN
    /\ ai_outcome \in (IF ai_available /\ ~InsufficientText(raw_text)
                       THEN AIOutcomes ELSE {"json"})
    /\ ai_enhanced_data \in (IF ai_available /\ ~InsufficientText(raw_text)
                                /\ ai_outcome \in {"json", "json_in_text"}
                             THEN AIResponses ELSE {EmptyDict})
    /\ final_data = NoRecord
    /\ returned = FALSE

IdleAI ==
    /\ raw_text = NoneText
    /\ rule_based_data = NoData
    /\ ai_available = FALSE
    /\ ai_outcome = "json"
    /\ ai_enhanced_data = EmptyDict
    /\ final_data = NoRecord
    /\ returned = FALSE

ProcessTariffData ==
    /\ ~returned
    /\ final_data' = ProcessTariffDataResult(raw_text, rule_based_data,
                         ai_available, ai_outcome, ai_enhanced_data)
    /\ returned' = TRUE
    /\ UNCHANGED <<raw_text, rule_based_data, ai_available, ai_outcome,
                   ai_enhanced_data>>
    /\ UNCHANGED <<prodVars, dbVars, apiVars, dateVars, noteVars, procVars, fixedVars, stateVars, taskVars, uploadVars, lineVars, tableVars, confVars, multiVars, connVars>>

-----------------------------------------------------------------------------
(* ProductionOCRProcessor: rate extraction.  The regex scans of the text   *)
(* are inputs of the model: the line scan of _extract_all_rates finds a    *)
(* sequence of candidates (an amount with the locations of its context),   *)
(* the table scan of _extract_rates_from_tables finds a sequence of table  *)
(* lines split into origin, destination and amount.                        *)

Candidate(o, d, a) == [origin |-> o, destination |-> d, rate_amount |-> a]

\* Amounts as the rate patterns capture them: digits with an optional
\* fraction, of any magnitude.
Amounts == {"0.01", "52.75", "50000"}

\* The numeric value of an amount string, in cents.
AmountCents(a) == CASE a = "0.01" -> 1
                    [] a = "52.75" -> 5275
                    [] a = "61.00" -> 6100
                    [] a = "1234" -> 123400
                    [] a = "50000" -> 5000000
                    [] OTHER -> 0

\* _extract_locations_from_context returns two matched locations or ('', '').
TextLocationPairs == {<<"", "">>,
                      <<"VANCOUVER BC", "CHICAGO IL">>,
                      <<"CALGARY AB", "CHICAGO IL">>,
                      <<"LOW CAP BC", "CHICAGO IL">>}
TextCandidates ==
    {Candidate(p[1], p[2], a) : p \in TextLocationPairs, a \in Amounts}

\* _parse_table_line takes the first two columns as origin and destination
\* and the first number of the line as the amount, so a numeric first column
\* is also the amount.
TableLocationPairs == {<<"VANCOUVER BC", "CHICAGO IL">>,
                       <<"VANCOUVER BC", "IL">>,
                       <<"LOW CAP BC", "CHICAGO IL">>}
TableCandidates ==
    {Candidate(p[1], p[2], a) : p \in TableLocationPairs, a \in Amounts}
    \cup {Candidate("1234", "CHICAGO IL", "1234")}

\* `word in location.upper()` for one of the invalid words: of the locations
\* above only "LOW CAP BC" holds one ('LOW', 'CAP').
ContainsInvalidWord(loc) == loc = "LOW CAP BC"

\* re.search(r'[A-Za-z]', location)
HasLetter(loc) == loc \notin {"", "1234"}

\* ProductionOCRProcessor._validate_locations
ValidateLocations(origin, destination) ==
    /\ origin # "" /\ destination # ""
    /\ ~ContainsInvalidWord(origin) /\ ~ContainsInvalidWord(destination)
    /\ HasLetter(origin) /\ HasLetter(destination)
    /\ Len(origin) >= 4 /\ Len(destination) >= 4

\* A rate entry: the triple, how it was found ('extraction_method') and the
\* line it was found on ('raw_line', here the position in the scan).
RateEntry(c, method, i) ==
    [origin |-> c.origin, destination |-> c.destination,
     rate_amount |-> c.rate_amount, extraction_method |-> method,
     raw_line |-> i]

SameTriple(r1, r2) ==
    /\ r1.origin = r2.origin
    /\ r1.destination = r2.destination
    /\ r1.rate_amount = r2.rate_amount

\* ProductionOCRProcessor._is_duplicate_rate
IsDuplicateRate(existing_rates, new_rate) ==
    \E i \in 1..Len(existing_rates) : SameTriple(existing_rates[i], new_rate)

\* The line loop of _extract_all_rates: a candidate with invalid locations
\* is skipped, a valid one is appended unless it duplicates an entry of rates.
RECURSIVE ScanLines(_, _, _)
ScanLines(rates, cands, i) ==
    IF i > Len(cands) THEN rates
    ELSE LET entry == RateEntry(cands[i], "line", i) IN
         IF ~ValidateLocations(entry.origin, entry.destination)
         THEN ScanLines(rates, cands, i + 1)
         ELSE IF IsDuplicateRate(rates, entry)
         THEN ScanLines(rates, cands, i + 1)
         ELSE ScanLines(Append(rates, entry), cands, i + 1)

\* _parse_table_line: the entry of a table line, or none.
ParseTableLine(c, j) ==
    IF ValidateLocations(c.origin, c.destination)
    THEN <<RateEntry(c, "table", j)>> ELSE <<>>

\* _extract_rates_from_tables: every parsed table line, in order.
RECURSIVE ExtractRatesFromTables(_, _)
ExtractRatesFromTables(cands, j) ==
    IF j > Len(cands) THEN <<>>
    ELSE ParseTableLine(cands[j], j) \o ExtractRatesFromTables(cands, j + 1)

Triple(r) == <<r.origin, r.destination, r.rate_amount>>

\* A loop that collects the unique rates newest first.
RECURSIVE DedupLoop_Prepends(_, _, _)
DedupLoop_Prepends(seen, unique_rates, rates) ==
    IF rates = <<>> THEN unique_rates
    ELSE LET rate == Head(rates) IN
         IF Triple(rate) \notin seen
         THEN DedupLoop_Prepends(seen \cup {Triple(rate)},
                                 <<rate>> \o unique_rates, Tail(rates))
         ELSE DedupLoop_Prepends(seen, unique_rates, Tail(rates))

RECURSIVE DedupLoop(_, _, _)
DedupLoop(seen, unique_rates, rates) ==
    IF rates = <<>> THEN unique_rates
    ELSE LET rate == Head(rates) IN
         IF Triple(rate) \notin seen
         THEN DedupLoop(seen \cup {Triple(rate)}, Append(unique_rates, rate),
                        Tail(rates))
         ELSE DedupLoop(seen, unique_rates, Tail(rates))

\* A deduplication that drops nothing.
DeduplicateRates_KeepsAll(rates) == rates

\* ProductionOCRProcessor._deduplicate_rates
DeduplicateRates(rates) == DedupLoop({}, <<>>, rates)

\* ProductionOCRProcessor._extract_all_rates
ExtractAllRates(text_cands, table_cands) ==
    DeduplicateRates(ScanLines(<<>>, text_cands, 1)
                     \o ExtractRatesFromTables(table_cands, 1))

\* raw_ocr_data: its raw_text (None, "" - also the default of a missing
\* key - or a document) and what the scans of a document find.  Notes and
\* commodities are what _extract_all_notes / _extract_commodities return.
CandidateLists ==
    {<<t, b>> \in SeqUpTo(TextCandidates, MaxCandidates)
                   \X SeqUpTo(TableCandidates, MaxCandidates) :
        Len(t) + Len(b) <= MaxCandidates}

OcrInputs ==
    {[raw_text |-> e, text_candidates |-> <<>>, table_candidates |-> <<>>,
      notes |-> <<>>, commodities |-> <<>>] : e \in {NoneText, ""}}
    \cup {[raw_text |-> DocText, text_candidates |-> cl[1],
           table_candidates |-> cl[2], notes |-> n, commodities |-> c] :
             cl \in CandidateLists, n \in {<<>>, <<RuleNote>>},
             c \in {<<>>, RuleCommodities}}

\* ProductionOCRProcessor._empty_result
ProductionEmptyResult ==
    [commodities |-> <<>>, rates |-> <<>>, notes |-> <<>>,
     extraction_success |-> FALSE, rates_found |-> 0]

\* ProductionOCRProcessor.process_document_data as a function of its input.
ProcessDocumentDataResult(inp) ==
    IF inp.raw_text \in {NoneText, ""} THEN ProductionEmptyResult
    ELSE LET rates == ExtractAllRates(inp.text_candidates,
                                      inp.table_candidates) IN
         [commodities |-> inp.commodities, rates |-> rates,
          notes |-> inp.notes, extraction_success |-> TRUE,
          rates_found |-> Len(rates)]

InitProd ==
    /\ ocr_input \in OcrInputs
    /\ prod_result = ProductionEmptyResult
    /\ prod_returned = FALSE

IdleProd ==
    /\ ocr_input = [raw_text |-> NoneText, text_candidates |-> <<>>,
                    table_candidates |-> <<>>, notes |-> <<>>,
                    commodities |-> <<>>]
    /\ prod_result = ProductionEmptyResult
    /\ prod_returned = FALSE

ProcessDocumentData ==
    /\ ~prod_returned
    /\ prod_result' = ProcessDocumentDataResult(ocr_input)
    /\ prod_returned' = TRUE
    /\ UNCHANGED ocr_input
    /\ UNCHANGED <<aiVars, dbVars, apiVars, dateVars, noteVars, procVars, fixedVars, stateVars, taskVars, uploadVars, lineVars, tableVars, confVars, multiVars, connVars>>

-----------------------------------------------------------------------------
(* CPTariffDatabase.save_tariff_document_complete.  A row of the input is  *)
(* TRUE when its INSERT goes through and FALSE when building its           *)
(* parameters or executing it raises (a None under a sliced key, a value   *)
(* the column rejects).                                                    *)

SaveInputs ==
    [connection : {"ok", "none", "cursor_raises"},
     main_document : {"id", "no_id", "raises"},
     commodities : SeqUpTo(BOOLEAN, MaxRows),
     rates : SeqUpTo(BOOLEAN, MaxRows),
     notes : SeqUpTo(BOOLEAN, MaxRows),
     commit_ok : BOOLEAN]

NothingCommitted ==
    [document |-> FALSE, commodities |-> {}, rates |-> {}, notes |-> {}]

\* _insert_document_commodities / _insert_document_rates /
\* _insert_document_notes: one try around the whole loop, so the rows before
\* the first failing row are executed and the helper returns False.
InsertRows(rows) ==
    [success |-> \A i \in 1..Len(rows) : rows[i],
     inserted |-> {i \in 1..Len(rows) : \A j \in 1..i : rows[j]}]

\* The save as a function of its input: what it returns and what is
\* committed when it has returned.  The result of a child insert is printed
\* and not acted on; commit() follows whatever the child inserts did.
SaveTariffDocumentComplete(inp) ==
    CASE inp.connection = "none" ->
             [result |-> "none", committed |-> NothingCommitted]
      [] inp.connection = "cursor_raises" ->
             \* rollback in except, then cursor.close() in finally raises
             \* on the unbound cursor
             [result |-> "raises", committed |-> NothingCommitted]
      [] OTHER ->
             IF inp.main_document # "id"
             THEN [result |-> "none", committed |-> NothingCommitted]
             ELSE IF ~inp.commit_ok
             THEN [result |-> "none", committed |-> NothingCommitted]
             ELSE [result |-> "id",
                   committed |->
                      [document |-> TRUE,
                       commodities |-> InsertRows(inp.commodities).inserted,
                       rates |-> InsertRows(inp.rates).inserted,
                       notes |-> InsertRows(inp.notes).inserted]]

InitDb ==
    /\ save_input \in SaveInputs
    /\ db_committed = NothingCommitted
    /\ save_result = "pending"

IdleDb ==
    /\ save_input = [connection |-> "none", main_document |-> "no_id",
                     commodities |-> <<>>, rates |-> <<>>, notes |-> <<>>,
                     commit_ok |-> FALSE]
    /\ db_committed = NothingCommitted
    /\ save_result = "pending"

SaveDocument ==
    /\ save_result = "pending"
    /\ save_result' = SaveTariffDocumentComplete(save_input).result
    /\ db_committed' = SaveTariffDocumentComplete(save_input).committed
    /\ UNCHANGED save_input
    /\ UNCHANGED <<aiVars, prodVars, apiVars, dateVars, noteVars, procVars, fixedVars, stateVars, taskVars, uploadVars, lineVars, tableVars, confVars, multiVars, connVars>>

-----------------------------------------------------------------------------
(* The document endpoints of main.py: process_tariff, the background task  *)
(* process_document_task and process_tariff_document.                       *)

\* config.ALLOWED_EXTENSIONS
ALLOWED_EXTENSIONS == {"pdf", "png", "jpg", "jpeg", "tiff", "tif", "bmp"}

\* Whether main.py binds the name DocumentPreprocessor: its import is
\* commented out, so the call DocumentPreprocessor(file_path) raises NameError.
DocumentPreprocessorBound == FALSE

\* Whether cp_tariff_database exports the name `database` that
\* process_tariff_document imports: the module instance is `tariff_database`,
\* so the import raises ImportError.
DatabaseExported == FALSE

\* The records the extraction stages hand to the save.
ExtractedRecords ==
    {r \in RuleBasedResults : /\ r.header.item_number = StrV("70001")
                              /\ r.header.revision = IntV(5)}

\* A request: the extension of the upload, config.DEBUG, how the OCR stage
\* ends, what it extracts, how the sink's save ends.
ApiRequests ==
    [file_ext : {"pdf", "exe"},
     debug : BOOLEAN,
     ocr : {"ok", "raises"},
     record : ExtractedRecords,
     sink : {"id", "none", "raises"}]

\* What the caller receives.  kind is "none" before the handler has run,
\* "http_error" for an HTTPException, "json" for a returned dict and
\* "task_error" for a background task that ended in its error handler.
\* A key that is not in the dict is "absent"; a key holding None is "none".
Response(kind, code, success, status, id, dberr, metadata, extracted, rec) ==
    [kind |-> kind, status_code |-> code, success |-> success,
     status |-> status, document_id |-> id, database_error |-> dberr,
     metadata |-> metadata, extracted |-> extracted,
     extracted_value |-> rec]

NoResponse ==
    Response("none", 0, "absent", "absent", "absent", "absent", "absent",
             "absent", NoData)

HttpError(code) ==
    Response("http_error", code, "absent", "absent", "absent", "absent",
             "absent", "absent", NoData)

\* The stages of process_tariff and process_document_task before the save.
StagesRaise(req) == ~DocumentPreprocessorBound \/ req.ocr = "raises"

\* The database try block of process_tariff: the success dict is built from
\* whatever save_tariff_document returned, the except dict when it raised.
ProcessTariffSaveBlock(req) ==
    IF req.sink = "raises"
    THEN Response("json", 200, "false", "absent", "absent", "msg", "header",
                  IF req.debug THEN "record" ELSE "none",
                  IF req.debug THEN req.record ELSE NoData)
    ELSE Response("json", 200, "true", "absent", req.sink, "absent", "header",
                  IF req.debug THEN "record" ELSE "absent",
                  IF req.debug THEN req.record ELSE NoData)

\* process_tariff
ProcessTariffResponse(req) ==
    IF req.file_ext \notin ALLOWED_EXTENSIONS THEN HttpError(400)
    ELSE IF StagesRaise(req) THEN HttpError(500)
    ELSE ProcessTariffSaveBlock(req)

\* The database try block of process_document_task: neither result dict
\* holds the extracted record.
ProcessDocumentTaskSaveBlock(req) ==
    IF req.sink = "raises"
    THEN Response("json", 200, "false", "absent", "absent", "msg", "header",
                  "absent", NoData)
    ELSE Response("json", 200, "true", "absent", req.sink, "absent", "header",
                  "absent", NoData)

\* process_document_task: the result written to the result file, or the
\* error status.
ProcessDocumentTaskResponse(req) ==
    IF StagesRaise(req)
    THEN Response("task_error", 0, "absent", "error", "absent", "absent",
                  "absent", "absent", NoData)
    ELSE ProcessDocumentTaskSaveBlock(req)

\* The error dict of process_tariff_document's except clause.
ErrorResponse ==
    Response("json", 200, "absent", "error", "none", "absent", "absent",
             "absent", NoData)

\* process_tariff_document: any exception, of the OCR stage, of the import
\* of the sink or of the save, ends in the error dict.
ProcessTariffDocumentResponse(req) ==
    IF req.ocr = "raises" THEN ErrorResponse
    ELSE IF ~DatabaseExported \/ req.sink = "raises" THEN ErrorResponse
    ELSE Response("json", 200, "absent",
                  IF req.sink = "id" THEN "success" ELSE "warning",
                  req.sink, "absent", "absent", "record", req.record)

InitApi ==
    /\ api_request \in ApiRequests
    /\ api_handler = "none"
    /\ api_response = NoResponse

IdleApi ==
    /\ api_request = [file_ext |-> "pdf", debug |-> FALSE, ocr |-> "ok",
                      record |-> CHOOSE r \in ExtractedRecords :
                                    r.rates = <<>> /\ r.notes = <<>>,
                      sink |-> "id"]
    /\ api_handler = "none"
    /\ api_response = NoResponse

ProcessTariff ==
    /\ api_handler = "none"
    /\ api_handler' = "process_tariff"
    /\ api_response' = ProcessTariffResponse(api_request)
    /\ UNCHANGED api_request
    /\ UNCHANGED <<aiVars, prodVars, dbVars, dateVars, noteVars, procVars, fixedVars, stateVars, taskVars, uploadVars, lineVars, tableVars, confVars, multiVars, connVars>>

\* process_tariff_async starts the task for an upload with an allowed
\* extension only.
ProcessDocumentTask ==
    /\ api_handler = "none"
    /\ api_request.file_ext \in ALLOWED_EXTENSIONS
    /\ api_handler' = "process_document_task"
    /\ api_response' = ProcessDocumentTaskResponse(api_request)
    /\ UNCHANGED api_request
    /\ UNCHANGED <<aiVars, prodVars, dbVars, dateVars, noteVars, procVars, fixedVars, stateVars, taskVars, uploadVars, lineVars, tableVars, confVars, multiVars, connVars>>

ProcessTariffDocument ==
    /\ api_handler = "none"
    /\ api_handler' = "process_tariff_document"
    /\ api_response' = ProcessTariffDocumentResponse(api_request)
    /\ UNCHANGED api_request
    /\ UNCHANGED <<aiVars, prodVars, dbVars, dateVars, noteVars, procVars, fixedVars, stateVars, taskVars, uploadVars, lineVars, tableVars, confVars, multiVars, connVars>>

-----------------------------------------------------------------------------
(* Date parsing: CPTariffDatabase.parse_tariff_date and                    *)
(* EnhancedDataProcessor._parse_date.  A date string is modelled by its    *)
(* layout (form) and the tokens the patterns capture from it; a run of     *)
(* digits is the sequence of its digits, so int(), zfill() and strftime()  *)
(* are computed.                                                            *)
(*   "mon_comma"  WORD D, YYYY      "mon_space"  WORD D YYYY               *)
(*   "mon_dash"   WORD-D-YYYY       "slash"      M/D/YYYY                  *)
(*   "dash"       MM-DD-YYYY        "ymd"        YYYY-MM-DD                *)
(*   "text"       a text with no date in it                                *)
(*   "empty"      the empty string  "none"       None                      *)

DateText(form, word, a, b, y) ==
    [form |-> form, word |-> word, a |-> a, b |-> b, y |-> y]

DateWords == {"JUL", "FEB", "FOO"}
DayDigits == {<<4>>, <<0, 4>>, <<2, 2>>, <<2, 9>>, <<3, 0>>, <<9, 9>>}
MonthDigits == {<<7>>, <<0, 7>>, <<0, 2>>, <<1, 3>>, <<0, 0>>}
YearDigits == {<<2, 0, 2, 3>>, <<2, 0, 2, 4>>, <<9, 9, 9, 9>>}

TwoDigits(S) == {ds \in S : Len(ds) = 2}

DateTexts ==
    {DateText(f, "", <<>>, <<>>, <<>>) : f \in {"none", "empty", "text"}}
    \cup {DateText(f, w, <<>>, d, y) :
             f \in {"mon_comma", "mon_space", "mon_dash"},
             w \in DateWords, d \in DayDigits, y \in YearDigits}
    \cup {DateText("slash", "", m, d, y) :
             m \in MonthDigits, d \in DayDigits, y \in YearDigits}
    \cup {DateText(f, "", m, d, y) :
             f \in {"dash", "ymd"}, m \in TwoDigits(MonthDigits),
             d \in TwoDigits(DayDigits), y \in YearDigits}

\* int() of a run of digits
RECURSIVE ToInt(_)
ToInt(ds) ==
    IF ds = <<>> THEN 0
    ELSE 10 * ToInt(SubSeq(ds, 1, Len(ds) - 1)) + ds[Len(ds)]

\* str.zfill(2)
ZFill2(ds) == IF Len(ds) < 2 THEN <<0>> \o ds ELSE ds

\* The decimal digits of a positive number.
RECURSIVE Digits(_)
Digits(n) == IF n < 10 THEN <<n>> ELSE Append(Digits(n \div 10), n % 10)

\* A returned date string "Y-M-D", and None.
IsoDate(y, m, d) == [kind |-> "iso", y |-> y, m |-> m, d |-> d]
NoDate == [kind |-> "none", y |-> <<>>, m |-> <<>>, d |-> <<>>]
PendingDate == [kind |-> "pending", y |-> <<>>, m |-> <<>>, d |-> <<>>]

IsLeapYear(y) == y % 4 = 0 /\ (y % 100 # 0 \/ y % 400 = 0)

DaysInMonth(y, m) ==
    CASE m \in {4, 6, 9, 11} -> 30
      [] m = 2 -> IF IsLeapYear(y) THEN 29 ELSE 28
      [] OTHER -> 31

\* datetime(year, month, day) raises ValueError unless the three form a date.
DatetimeRaises(y, m, d) ==
    ~(/\ y >= 1 /\ y <= 9999
      /\ m >= 1 /\ m <= 12
      /\ d >= 1 /\ d <= DaysInMonth(y, m))

\* parsed_date.strftime('%Y-%m-%d')
Strftime(y, m, d) == IsoDate(Digits(y), ZFill2(Digits(m)), ZFill2(Digits(d)))

\* A month lookup that knows no month.
MonthNumber_AlwaysDefault(word) == 1

\* month_names.get(match.group(1), 1) of parse_tariff_date
MonthNumber(word) ==
    CASE word = "JAN" -> 1 [] word = "FEB" -> 2 [] word = "MAR" -> 3
      [] word = "APR" -> 4 [] word = "MAY" -> 5 [] word = "JUN" -> 6
      [] word = "JUL" -> 7 [] word = "AUG" -> 8 [] word = "SEP" -> 9
      [] word = "OCT" -> 10 [] word = "NOV" -> 11 [] word = "DEC" -> 12
      [] OTHER -> 1

\* The patterns of parse_tariff_date, in order, with the layouts each
\* matches.
TariffDatePatterns ==
    <<[type |-> "month_name", forms |-> {"mon_comma", "mon_space"}],
      [type |-> "month_name", forms |-> {"mon_space"}],
      [type |-> "month_name", forms |-> {"mon_dash"}],
      [type |-> "mdy", forms |-> {"slash"}],
      [type |-> "ymd", forms |-> {"ymd"}],
      [type |-> "mdy_dash", forms |-> {"dash"}]>>

\* The try block of parse_tariff_date for one matching pattern: the year,
\* month and day it hands to datetime().
TariffDateFields(type, t) ==
    IF type = "month_name"
    THEN [y |-> ToInt(t.y), m |-> MonthNumber(t.word), d |-> ToInt(t.b)]
    ELSE [y |-> ToInt(t.y), m |-> ToInt(t.a), d |-> ToInt(t.b)]

\* The pattern loop of parse_tariff_date from pattern i on: a pattern that
\* matches returns the formatted date, or is skipped when datetime() raises.
RECURSIVE TariffDateLoop(_, _)
TariffDateLoop(t, i) ==
    IF i > Len(TariffDatePatterns) THEN NoDate
    ELSE LET p == TariffDatePatterns[i]
             f == TariffDateFields(p.type, t)
         IN IF t.form \notin p.forms THEN TariffDateLoop(t, i + 1)
            ELSE IF DatetimeRaises(f.y, f.m, f.d) THEN TariffDateLoop(t, i + 1)
            ELSE Strftime(f.y, f.m, f.d)

\* CPTariffDatabase.parse_tariff_date
ParseTariffDateResult(t) ==
    IF t.form \in {"none", "empty"} THEN NoDate ELSE TariffDateLoop(t, 1)

\* month_map.get(match.group(1), '01') of _parse_date
MonthMap(word) == ZFill2(Digits(MonthNumber(word)))

\* EnhancedDataProcessor._parse_date: the first matching pattern returns
\* the captured text rearranged, without building a date from it.
ParseDateResult(t) ==
    CASE t.form \in {"none", "empty"} -> NoDate
      [] t.form \in {"mon_comma", "mon_space"} ->
             IsoDate(t.y, MonthMap(t.word), ZFill2(t.b))
      [] t.form \in {"slash", "dash"} -> IsoDate(t.y, ZFill2(t.a), ZFill2(t.b))
      [] t.form = "ymd" -> IsoDate(t.y, t.a, t.b)
      [] OTHER -> NoDate

InitDates ==
    /\ date_str \in DateTexts
    /\ tariff_date = PendingDate
    /\ parsed_date = PendingDate

IdleDates ==
    /\ date_str = DateText("none", "", <<>>, <<>>, <<>>)
    /\ tariff_date = PendingDate
    /\ parsed_date = PendingDate

ParseTariffDate ==
    /\ tariff_date = PendingDate
    /\ tariff_date' = ParseTariffDateResult(date_str)
    /\ UNCHANGED <<date_str, parsed_date>>
    /\ UNCHANGED <<aiVars, prodVars, dbVars, apiVars, noteVars, procVars, fixedVars, stateVars, taskVars, uploadVars, lineVars, tableVars, confVars, multiVars, connVars>>

ParseDate ==
    /\ parsed_date = PendingDate
    /\ parsed_date' = ParseDateResult(date_str)
    /\ UNCHANGED <<date_str, tariff_date>>
    /\ UNCHANGED <<aiVars, prodVars, dbVars, apiVars, noteVars, procVars, fixedVars, stateVars, taskVars, uploadVars, lineVars, tableVars, confVars, multiVars, connVars>>

-----------------------------------------------------------------------------
(* The note extractors of the OCR engines: OCREngine._extract_notes of     *)
(* ocr_engine_improved.py and EnhancedOCREngine._extract_notes_improved of *)
(* ocr_engine_enhanced.py.  The pattern scans are inputs of the model.     *)

ExtractedNote(type, sort_order) == [type |-> type, sort_order |-> sort_order]

\* For _extract_notes: the asterisk matches in order, TRUE for a match whose
\* text is longer than 3 characters; the number of numbered-note matches;
\* the provision matches in order, TRUE for a match that is long enough and
\* holds the text of no earlier note.
\* For _extract_notes_improved: the kind of each line of the text, "skip"
\* for a line that is short or matches no pattern.
LineKinds == {"NUMBERED", "ASTERISK", "PROVISION", "GENERAL", "skip"}

NoteInputs ==
    {[asterisk |-> a, numbered |-> n, provisions |-> pr, lines |-> <<>>] :
        a \in SeqUpTo(BOOLEAN, MaxNoteMatches), n \in 0..MaxNoteMatches,
        pr \in SeqUpTo(BOOLEAN, MaxNoteMatches)}
    \cup {[asterisk |-> <<>>, numbered |-> 0, provisions |-> <<>>,
           lines |-> l] : l \in SeqUpTo(LineKinds, MaxNoteMatches)}

\* The asterisk loop of _extract_notes: sort_order is the index i of the
\* match among all asterisk matches, kept or not.
RECURSIVE AsteriskNotes(_, _, _)
AsteriskNotes(notes, matches, i) ==
    IF i >= Len(matches) THEN notes
    ELSE AsteriskNotes(IF matches[i + 1]
                       THEN Append(notes, ExtractedNote("ASTERISK", i))
                       ELSE notes,
                       matches, i + 1)

\* The numbered loop of _extract_notes: n matches, each appended with the
\* running note_index.
RECURSIVE NumberedNotes(_, _, _)
NumberedNotes(notes, note_index, n) ==
    IF n = 0 THEN [notes |-> notes, note_index |-> note_index]
    ELSE NumberedNotes(Append(notes, ExtractedNote("NUMBERED", note_index)),
                       note_index + 1, n - 1)

\* The provision loop of _extract_notes.
RECURSIVE ProvisionNotes(_, _, _)
ProvisionNotes(notes, note_index, matches) ==
    IF matches = <<>> THEN notes
    ELSE IF Head(matches)
    THEN ProvisionNotes(Append(notes, ExtractedNote("PROVISION", note_index)),
                        note_index + 1, Tail(matches))
    ELSE ProvisionNotes(notes, note_index, Tail(matches))

\* OCREngine._extract_notes (ocr_engine_improved.py): note_index starts at
\* len(notes) after the asterisk loop.
ExtractNotes(inp) ==
    LET asterisk == AsteriskNotes(<<>>, inp.asterisk, 0)
        numbered == NumberedNotes(asterisk, Len(asterisk), inp.numbered)
    IN ProvisionNotes(numbered.notes, numbered.note_index, inp.provisions)

\* EnhancedOCREngine._extract_notes_improved: every line that matches a
\* pattern is appended with sort_order len(notes).
RECURSIVE ExtractNotesImproved(_, _)
ExtractNotesImproved(notes, lines) ==
    IF lines = <<>> THEN notes
    ELSE ExtractNotesImproved(
             IF Head(lines) = "skip" THEN notes
             ELSE Append(notes, ExtractedNote(Head(lines), Len(notes))),
             Tail(lines))

InitNotes ==
    /\ note_input \in NoteInputs
    /\ notes_out = <<>>
    /\ notes_by = "none"

IdleNotes ==
    /\ note_input = [asterisk |-> <<>>, numbered |-> 0, provisions |-> <<>>,
                     lines |-> <<>>]
    /\ notes_out = <<>>
    /\ notes_by = "none"

RunExtractNotes ==
    /\ notes_by = "none"
    /\ note_input.lines = <<>>
    /\ notes_out' = ExtractNotes(note_input)
    /\ notes_by' = "ocr_engine_improved"
    /\ UNCHANGED note_input
    /\ UNCHANGED <<aiVars, prodVars, dbVars, apiVars, dateVars, procVars, fixedVars, stateVars, taskVars, uploadVars, lineVars, tableVars, confVars, multiVars, connVars>>

RunExtractNotesImproved ==
    /\ notes_by = "none"
    /\ note_input.asterisk = <<>>
    /\ note_input.numbered = 0
    /\ note_input.provisions = <<>>
    /\ notes_out' = ExtractNotesImproved(<<>>, note_input.lines)
    /\ notes_by' = "ocr_engine_enhanced"
    /\ UNCHANGED note_input
    /\ UNCHANGED <<aiVars, prodVars, dbVars, apiVars, dateVars, procVars, fixedVars, stateVars, taskVars, uploadVars, lineVars, tableVars, confVars, multiVars, connVars>>

-----------------------------------------------------------------------------
(* EnhancedDataProcessor (enhanced_data_processor.py): one instance, whose *)
(* process_extracted_data is called on one raw document after another.     *)
(* A text is a sequence of characters.  The header is modelled by its revision field; the other header    *)
(* fields are processed independently of it.                               *)

RevAbsent == [t |-> "absent", n |-> 0, cs |-> <<>>]
RevInt(i) == [t |-> "int", n |-> i, cs |-> <<>>]
RevStr(cs) == [t |-> "str", n |-> 0, cs |-> cs]

RevisionValues ==
    {RevAbsent, RevInt(0), RevInt(5), RevStr(<<>>), RevStr(<<"5">>),
     RevStr(<<" ", "7", " ">>), RevStr(<<"A">>), RevStr(<<"1", ".", "5">>)}

DigitChars == <<"0", "1", "2", "3", "4", "5", "6", "7", "8", "9">>
DigitOf(c) == CHOOSE d \in 0..9 : DigitChars[d + 1] = c

\* str(v).strip()
RECURSIVE Strip(_)
Strip(cs) ==
    IF cs = <<>> THEN cs
    ELSE IF Head(cs) = " " THEN Strip(Tail(cs))
    ELSE IF cs[Len(cs)] = " " THEN Strip(SubSeq(cs, 1, Len(cs) - 1))
    ELSE cs

\* str(v) of a non-negative int or of a str
StrOf(v) ==
    IF v.t = "int"
    THEN [i \in 1..Len(Digits(v.n)) |-> DigitChars[Digits(v.n)[i] + 1]]
    ELSE v.cs

\* int(text) of a run of digits
IntOf(cs) == ToInt([i \in 1..Len(cs) |-> DigitOf(cs[i])])

\* int(text) raises ValueError unless the text is a run of digits.
IntRaises(cs) ==
    cs = <<>>
    \/ \E i \in 1..Len(cs) : \A d \in 1..10 : DigitChars[d] # cs[i]

\* _process_header: header.get('revision') is tested for truth, then parsed;
\* the except branch stores 0.
ProcessHeader(revision) ==
    IF revision.t = "absent" \/ (revision.t = "int" /\ revision.n = 0)
       \/ (revision.t = "str" /\ revision.cs = <<>>)
    THEN [revision |-> RevAbsent]
    ELSE IF IntRaises(Strip(StrOf(revision)))
    THEN [revision |-> RevInt(0)]
    ELSE [revision |-> RevInt(IntOf(Strip(StrOf(revision))))]

\* What _parse_single_rate does with a rate: returns a rate, returns None,
\* or raises (the TypeError of _is_malformed_location on a location that
\* matches none of its string patterns).
RateOutcomes == {"rate", "none", "raises"}

\* A raw note: its text is shorter than 3 characters, or it is kept and
\* carries a sort_order or none, or its text is None (a JSON null), on
\* which note.get('text', '').strip() raises AttributeError.
RawNoteKinds == {"short", "ordered", "unordered", "text_none"}

\* _process_notes has no try block: the first note whose text is None ends
\* the loop and the exception leaves process_extracted_data.
NotesRaise(notes) == \E i \in 1..Len(notes) : notes[i] = "text_none"

NotesBeforeRaise(notes) ==
    IF NotesRaise(notes)
    THEN SubSeq(notes, 1,
                (CHOOSE i \in 1..Len(notes) :
                    /\ notes[i] = "text_none"
                    /\ \A j \in 1..(i - 1) : notes[j] # "text_none") - 1)
    ELSE notes

RawDocuments ==
    [revision : RevisionValues,
     commodities : SeqUpTo(BOOLEAN, MaxItems),
     rates : SeqUpTo(RateOutcomes, MaxItems),
     notes : SeqUpTo(RawNoteKinds, MaxItems)]

CountOf(seq, x) == Cardinality({i \in 1..Len(seq) : seq[i] = x})

\* _process_notes: a kept note has note.get('sort_order', 0); an ordered
\* note carries its index in the raw list.
RECURSIVE ProcessNotes(_, _)
ProcessNotes(notes, i) ==
    IF i > Len(notes) THEN <<>>
    ELSE (CASE notes[i] = "short" -> <<>>
            [] notes[i] = "ordered" -> <<[sort_order |-> i - 1]>>
            [] OTHER -> <<[sort_order |-> 0]>>)
         \o ProcessNotes(notes, i + 1)

\* __init__
NewProcessingStats ==
    [rates_processed |-> 0, notes_processed |-> 0,
     commodities_processed |-> 0, errors_encountered |-> 0]

\* The counters after _process_commodities, _process_rates and
\* _process_notes have run on a document.
StatsAfter(stats, doc) ==
    [rates_processed |-> stats.rates_processed + CountOf(doc.rates, "rate"),
     notes_processed |-> stats.notes_processed
                         + Len(ProcessNotes(NotesBeforeRaise(doc.notes), 1)),
     commodities_processed |-> stats.commodities_processed
                               + CountOf(doc.commodities, TRUE),
     errors_encountered |-> stats.errors_encountered
                            + CountOf(doc.rates, "raises")]

\* process_extracted_data: the dict literal is evaluated in order, so
\* _create_processing_metadata reads the counters after the other steps.
\* raised is whether the call ended in an exception instead of a record.
ProcessExtractedDataResult(stats, doc) ==
    IF NotesRaise(doc.notes)
    THEN [raised |-> TRUE, header |-> [revision |-> RevAbsent],
          commodities |-> 0, rates |-> 0, notes |-> <<>>,
          processing_metadata |-> NewProcessingStats]
    ELSE [raised |-> FALSE, header |-> ProcessHeader(doc.revision),
          commodities |-> CountOf(doc.commodities, TRUE),
          rates |-> CountOf(doc.rates, "rate"),
          notes |-> ProcessNotes(doc.notes, 1),
          processing_metadata |-> StatsAfter(stats, doc)]

NoDocument ==
    [revision |-> RevAbsent, commodities |-> <<>>, rates |-> <<>>,
     notes |-> <<>>]

InitProc ==
    /\ processing_stats = NewProcessingStats
    /\ proc_doc = NoDocument
    /\ proc_record = ProcessExtractedDataResult(NewProcessingStats, NoDocument)
    /\ proc_calls = 0

ProcessExtractedData ==
    /\ proc_calls < MaxDocuments
    /\ \E doc \in RawDocuments :
          /\ proc_doc' = doc
          /\ proc_record' = ProcessExtractedDataResult(processing_stats, doc)
          /\ processing_stats' = StatsAfter(processing_stats, doc)
    /\ proc_calls' = proc_calls + 1
    /\ UNCHANGED <<aiVars, prodVars, dbVars, apiVars, dateVars, noteVars, fixedVars, stateVars, taskVars, uploadVars, lineVars, tableVars, confVars, multiVars, connVars>>

-----------------------------------------------------------------------------
(* CPTariffDatabaseFixed.save_document (cp_tariff_database_fixed.py).      *)

\* The record has the four required keys or lacks one; its header holds an
\* item_number or none; the connection, the insert of the main document,
\* the inserts of the child rows and the commit succeed or fail.
FixedInputs ==
    [has_required_keys : BOOLEAN,
     item_number : {Absent, StrV(""), StrV("70001"), IntV(0), IntV(70001)},
     connection : {"ok", "none"},
     main_document : {"id", "no_id", "raises"},
     children_ok : BOOLEAN,
     commit_ok : BOOLEAN]

\* _validate_input_data
ValidateInputData(inp) ==
    IF ~inp.has_required_keys THEN FALSE
    ELSE IF ~Truthy(inp.item_number) THEN FALSE
    ELSE TRUE

\* save_document: the returned document id ("id") or None ("none"), and
\* whether conn.commit() completed.
SaveDocumentResult(inp) ==
    IF ~ValidateInputData(inp)
    THEN [result |-> "none", committed |-> FALSE]
    ELSE IF inp.connection = "none"
    THEN [result |-> "none", committed |-> FALSE]
    ELSE IF inp.main_document # "id"
    THEN [result |-> "none", committed |-> FALSE]
    ELSE IF ~inp.children_ok \/ ~inp.commit_ok
    THEN [result |-> "none", committed |-> FALSE]
    ELSE [result |-> "id", committed |-> TRUE]

InitFixed ==
    /\ fixed_input \in FixedInputs
    /\ fixed_result = "pending"
    /\ fixed_committed = FALSE

IdleFixed ==
    /\ fixed_input = [has_required_keys |-> FALSE, item_number |-> Absent,
                      connection |-> "none", main_document |-> "no_id",
                      children_ok |-> FALSE, commit_ok |-> FALSE]
    /\ fixed_result = "pending"
    /\ fixed_committed = FALSE

FixedSaveDocument ==
    /\ fixed_result = "pending"
    /\ fixed_result' = SaveDocumentResult(fixed_input).result
    /\ fixed_committed' = SaveDocumentResult(fixed_input).committed
    /\ UNCHANGED fixed_input
    /\ UNCHANGED <<aiVars, prodVars, dbVars, apiVars, dateVars, noteVars,
                   procVars, stateVars, taskVars, uploadVars, lineVars, tableVars, confVars, multiVars, connVars>>

-----------------------------------------------------------------------------
(* _extract_state_from_location of AIDataProcessor (ai_data_processor.py)  *)
(* and of EnhancedDataProcessor (enhanced_data_processor.py).  A location  *)
(* is modelled by the words str.split() finds in it; the empty text and a  *)
(* text of white space have no words.                                      *)

CanadianCodes ==
    {"AB", "BC", "MB", "NB", "NL", "NS", "NT", "NU", "ON", "PE", "QC", "SK",
     "YT"}

USCodes ==
    {"AL", "AK", "AZ", "AR", "CA", "CO", "CT", "DE", "FL", "GA", "HI", "ID",
     "IL", "IN", "IA", "KS", "KY", "LA", "ME", "MD", "MA", "MI", "MN", "MS",
     "MO", "MT", "NE", "NV", "NH", "NJ", "NM", "NY", "NC", "ND", "OH", "OK",
     "OR", "PA", "RI", "SC", "SD", "TN", "TX", "UT", "VT", "VA", "WA", "WV",
     "WI", "WY"}

state_province_codes == CanadianCodes \cup USCodes

LocationWords == {"VANCOUVER", "bc", "BC", "ON", "in", "CITY", "Toronto,ON"}

Locations == SeqUpTo(LocationWords, MaxWords)

\* str.upper() of a word
Upper(word) ==
    CASE word = "bc" -> "BC"
      [] word = "in" -> "IN"
      [] word = "Toronto,ON" -> "TORONTO,ON"
      [] OTHER -> word

\* The loop over location.upper().split(): the first word in the table,
\* and '' when the words run out.
RECURSIVE ExtractStateFromLocation(_)
ExtractStateFromLocation(words) ==
    IF words = <<>> THEN StrV("")
    ELSE IF Upper(Head(words)) \in state_province_codes
    THEN StrV(Upper(Head(words)))
    ELSE ExtractStateFromLocation(Tail(words))

PendingState == [t |-> "pending", n |-> 0, s |-> ""]

InitStates ==
    /\ location \in Locations
    /\ state_code = PendingState

IdleStates ==
    /\ location = <<>>
    /\ state_code = PendingState

\* AIDataProcessor._extract_state_from_location
AIExtractState ==
    /\ state_code = PendingState
    /\ state_code' = ExtractStateFromLocation(location)
    /\ UNCHANGED location
    /\ UNCHANGED <<aiVars, prodVars, dbVars, apiVars, dateVars, noteVars,
                   procVars, fixedVars, taskVars, uploadVars, lineVars, tableVars, confVars, multiVars, connVars>>

\* EnhancedDataProcessor._extract_state_from_location
EnhancedExtractState ==
    /\ state_code = PendingState
    /\ state_code' = ExtractStateFromLocation(location)
    /\ UNCHANGED location
    /\ UNCHANGED <<aiVars, prodVars, dbVars, apiVars, dateVars, noteVars,
                   procVars, fixedVars, taskVars, uploadVars, lineVars, tableVars, confVars, multiVars, connVars>>

-----------------------------------------------------------------------------
(* The asynchronous endpoint of main.py: process_tariff_async accepts an   *)
(* upload and queues process_document_task; get_task_status answers the    *)
(* polls; debug_cleanup clears the statuses kept in memory.  One task is   *)
(* modelled.  process_document_task holds no await, so the event loop runs *)
(* it in one step.                                                         *)

\* background_tasks_status[task_id]: whether the key is in the dict, its
\* status and stage, and whether the entry has an error key.  No code path
\* stores a result key in it.
TaskEntry(present, status, stage, error) ==
    [present |-> present, status |-> status, stage |-> stage,
     error |-> error]

NoTaskEntry == TaskEntry(FALSE, "", "", FALSE)

\* The files {task_id}.{ext}, {task_id}_result.json, {task_id}_error.txt
NoTaskFiles == [upload |-> FALSE, result |-> FALSE, error |-> FALSE]

\* An answer of get_task_status: the HTTP code, the status and whether the
\* answer has a result field and an error field.
TaskStatusResponse(code, status, result, error) ==
    [status_code |-> code, status |-> status, result |-> result,
     error |-> error]

NoPoll == TaskStatusResponse(0, "", FALSE, FALSE)

TerminalStatuses == {"completed", "error"}

\* An except branch that only logs.
TaskErrorHandler_OnlyLogs(mem, files) == [mem |-> mem, files |-> files]

\* An except branch that sets the status and writes no error file.
TaskErrorHandler_NoErrorFile(mem, files) ==
    [mem |-> TaskEntry(TRUE, "error", mem.stage, TRUE), files |-> files]

\* The except branch of process_document_task: the error file is written
\* to TEMP_FOLDER, where process_tariff_async wrote the upload; the status
\* becomes "error" over what the entry held; the upload is removed.
TaskErrorHandler(mem, files) ==
    [mem |-> TaskEntry(TRUE, "error", mem.stage, TRUE),
     files |-> [files EXCEPT !.error = TRUE, !.upload = FALSE]]

\* The try block of process_document_task after its first status update:
\* a stage raises, or the result file is written, the status becomes
\* "completed" and the upload is removed.  A save that raises is caught
\* inside and still ends in "completed".
TaskBody(mem, files, req) ==
    IF StagesRaise(req)
    THEN TaskErrorHandler(mem, files)
    ELSE [mem |-> TaskEntry(TRUE, "completed", "database_save", mem.error),
          files |-> [files EXCEPT !.result = TRUE, !.upload = FALSE]]

\* get_task_status: the entry in memory when there is one, else the files.
GetTaskStatusResponse(mem, files) ==
    IF mem.present
    THEN TaskStatusResponse(200, mem.status, FALSE, mem.error)
    ELSE IF files.result
    THEN TaskStatusResponse(200, "completed", TRUE, FALSE)
    ELSE IF files.error
    THEN TaskStatusResponse(200, "error", FALSE, TRUE)
    ELSE IF files.upload
    THEN TaskStatusResponse(200, "processing", FALSE, FALSE)
    ELSE TaskStatusResponse(404, "", FALSE, FALSE)

InitTasks ==
    /\ task_request \in ApiRequests
    /\ task_pc = "none"
    /\ task_mem = NoTaskEntry
    /\ task_files = NoTaskFiles
    /\ poll_response = NoPoll
    /\ poll_reported = ""
    /\ task_aged = FALSE

IdleTaskRecord ==
    CHOOSE r \in ExtractedRecords : r.rates = <<>> /\ r.notes = <<>>

IdleTasks ==
    /\ task_request = [file_ext |-> "exe", debug |-> FALSE, ocr |-> "ok",
                       record |-> IdleTaskRecord, sink |-> "id"]
    /\ task_pc = "none"
    /\ task_mem = NoTaskEntry
    /\ task_files = NoTaskFiles
    /\ poll_response = NoPoll
    /\ poll_reported = ""
    /\ task_aged = FALSE

\* process_tariff_async
ProcessTariffAsync ==
    /\ task_pc = "none"
    /\ IF task_request.file_ext \notin ALLOWED_EXTENSIONS
       THEN /\ task_pc' = "rejected"
            /\ UNCHANGED <<task_mem, task_files>>
       ELSE /\ task_pc' = "queued"
            /\ task_files' = [task_files EXCEPT !.upload = TRUE]
            /\ task_mem' = TaskEntry(TRUE, "processing", "", FALSE)
    /\ UNCHANGED <<task_request, poll_response, poll_reported, task_aged>>
    /\ UNCHANGED <<aiVars, prodVars, dbVars, apiVars, dateVars, noteVars,
                   procVars, fixedVars, stateVars, uploadVars, lineVars, tableVars, confVars, multiVars, connVars>>

\* process_document_task
RunDocumentTask ==
    /\ task_pc = "queued"
    /\ LET started == TaskEntry(TRUE, "processing", "preprocessing",
                                task_mem.error)
           after == TaskBody(started, task_files, task_request)
       IN /\ task_mem' = after.mem
          /\ task_files' = after.files
    /\ task_pc' = "done"
    /\ UNCHANGED <<task_request, poll_response, poll_reported, task_aged>>
    /\ UNCHANGED <<aiVars, prodVars, dbVars, apiVars, dateVars, noteVars,
                   procVars, fixedVars, stateVars, uploadVars, lineVars, tableVars, confVars, multiVars, connVars>>

\* get_task_status, called by a client that holds the task id
GetTaskStatus ==
    /\ task_pc \in {"queued", "done"}
    /\ poll_response' = GetTaskStatusResponse(task_mem, task_files)
    /\ poll_reported' =
           IF poll_reported = "" /\ poll_response'.status \in TerminalStatuses
           THEN poll_response'.status
           ELSE poll_reported
    /\ UNCHANGED <<task_request, task_pc, task_mem, task_files, task_aged>>
    /\ UNCHANGED <<aiVars, prodVars, dbVars, apiVars, dateVars, noteVars,
                   procVars, fixedVars, stateVars, uploadVars, lineVars, tableVars, confVars, multiVars, connVars>>

\* cleanup_temp_files: the files of TEMP_FOLDER older than 24 hours are
\* removed.
CleanupTempFiles(files, aged) == IF aged THEN NoTaskFiles ELSE files

\* debug_cleanup, an endpoint of debug mode: cleanup_temp_files, then the
\* statuses in memory are cleared.
DebugCleanup ==
    /\ task_request.debug
    /\ task_pc \in {"queued", "done"}
    /\ task_files' = CleanupTempFiles(task_files, task_aged)
    /\ task_mem' = NoTaskEntry
    /\ UNCHANGED <<task_request, task_pc, poll_response, poll_reported,
                   task_aged>>
    /\ UNCHANGED <<aiVars, prodVars, dbVars, apiVars, dateVars, noteVars,
                   procVars, fixedVars, stateVars, uploadVars, lineVars, tableVars, confVars, multiVars, connVars>>

\* 24 hours pass after the task has run; the server keeps running.
DayPasses ==
    /\ task_pc = "done"
    /\ ~task_aged
    /\ task_aged' = TRUE
    /\ UNCHANGED <<task_request, task_pc, task_mem, task_files,
                   poll_response, poll_reported>>
    /\ UNCHANGED <<aiVars, prodVars, dbVars, apiVars, dateVars, noteVars,
                   procVars, fixedVars, stateVars, uploadVars, lineVars, tableVars, confVars, multiVars, connVars>>

-----------------------------------------------------------------------------
(* The validation of an upload by process_tariff and process_tariff_async  *)
(* (main.py).  A file name is modelled by its parts between the dots; an   *)
(* upload without a file name has no parts.                                *)

FileNames ==
    {<<>>, <<"pdf">>, <<"report", "pdf">>, <<"report", "PDF">>,
     <<"scan", "Tif">>, <<"test", "txt">>, <<"report", "exe">>,
     <<"report", "pdf", "exe">>, <<"report", "">>, <<"report", "exe", "png">>}

\* Sizes in MB around config.MAX_FILE_SIZE.
MAX_FILE_SIZE == 10
FileSizes == {0, 1, MAX_FILE_SIZE, MAX_FILE_SIZE + 1}

Uploads == [filename : FileNames, size : FileSizes]

\* str.lower()
Lower(part) ==
    CASE part = "PDF" -> "pdf"
      [] part = "Tif" -> "tif"
      [] OTHER -> part

\* file.filename.split('.')[-1].lower() if file.filename else ""
FileExt(filename) ==
    IF filename = <<>> THEN "" ELSE Lower(filename[Len(filename)])

\* What a handler did with the upload: the HTTP status of its response,
\* whether it wrote the file to TEMP_FOLDER, whether it started the
\* processing stages or queued the background task.
UploadOutcome(code, stored, started) ==
    [status_code |-> code, stored |-> stored, started |-> started]

NoUploadOutcome == UploadOutcome(0, FALSE, FALSE)

\* A validation that writes the file before it looks at its name.
ValidateUpload_StoresFirst(u, accepted) ==
    IF u.size > MAX_FILE_SIZE THEN UploadOutcome(400, FALSE, FALSE)
    ELSE IF FileExt(u.filename) \notin ALLOWED_EXTENSIONS
    THEN UploadOutcome(400, TRUE, FALSE)
    ELSE accepted

\* The checks both handlers start with; accepted is what the handler goes
\* on to do with a valid upload.
ValidateUpload(u, accepted) ==
    IF u.size > MAX_FILE_SIZE THEN UploadOutcome(400, FALSE, FALSE)
    ELSE IF FileExt(u.filename) \notin ALLOWED_EXTENSIONS
    THEN UploadOutcome(400, FALSE, FALSE)
    ELSE accepted

\* process_tariff on a valid upload: the file is written and the stages
\* run; the status is the one of ProcessTariffResponse.
ProcessTariffAccepted(u) ==
    UploadOutcome(
        ProcessTariffResponse(
            [file_ext |-> FileExt(u.filename), debug |-> FALSE, ocr |-> "ok",
             record |-> CHOOSE r \in ExtractedRecords : TRUE,
             sink |-> "id"]).status_code,
        TRUE, TRUE)

InitUploads ==
    /\ upload_file \in Uploads
    /\ upload_handler = "none"
    /\ upload_outcome = NoUploadOutcome

IdleUploads ==
    /\ upload_file = [filename |-> <<>>, size |-> 0]
    /\ upload_handler = "none"
    /\ upload_outcome = NoUploadOutcome

\* process_tariff, lines 203-231 and what follows them
UploadProcessTariff ==
    /\ upload_handler = "none"
    /\ upload_handler' = "process_tariff"
    /\ upload_outcome' = ValidateUpload(upload_file,
                                        ProcessTariffAccepted(upload_file))
    /\ UNCHANGED upload_file
    /\ UNCHANGED <<aiVars, prodVars, dbVars, apiVars, dateVars, noteVars,
                   procVars, fixedVars, stateVars, taskVars, lineVars, tableVars, confVars, multiVars, connVars>>

\* process_tariff_async: a valid upload is written, its status entry is
\* created and the background task is queued; the response has status 200.
UploadProcessTariffAsync ==
    /\ upload_handler = "none"
    /\ upload_handler' = "process_tariff_async"
    /\ upload_outcome' = ValidateUpload(upload_file,
                                        UploadOutcome(200, TRUE, TRUE))
    /\ UNCHANGED upload_file
    /\ UNCHANGED <<aiVars, prodVars, dbVars, apiVars, dateVars, noteVars,
                   procVars, fixedVars, stateVars, taskVars, lineVars, tableVars, confVars, multiVars, connVars>>

-----------------------------------------------------------------------------
(* The classification of one stripped line of text as a note, by the loop  *)
(* body of EnhancedOCREngine._extract_notes_improved and by                *)
(* ProductionOCRProcessor._extract_all_notes / _parse_line_for_note.       *)

\* A line as the patterns see it: its length; whether it starts with
\* digits followed by more text (the numbered pattern matches) and whether
\* that text is longer than 5 characters; whether it starts with '*';
\* whether it holds a provision keyword that is in the lists of both
\* classifiers (SUBJECT TO, EQUIPMENT, APPLIES); whether it holds ITEM:,
\* REVISION: or ISSUED:; whether it holds RATE, CHARGE or CAR.
LineLengths == {2, 7, 15, 25}

NoteLines ==
    {l \in [length : LineLengths, leading_int : BOOLEAN,
            long_rest : BOOLEAN, star : BOOLEAN, keyword : BOOLEAN,
            header_marker : BOOLEAN, rate_word : BOOLEAN] :
        /\ ~(l.leading_int /\ l.star)
        /\ l.long_rest => (l.leading_int /\ l.length >= 7)
        /\ (l.keyword \/ l.header_marker \/ l.rate_word) => l.length >= 7}

\* The loop body of _extract_notes_improved: the member of LineKinds that
\* the line stands for in NoteInputs.
LineKindEnhanced(l) ==
    IF l.length < 10 THEN "skip"
    ELSE IF l.leading_int /\ l.long_rest THEN "NUMBERED"
    ELSE IF l.star /\ l.length > 5 THEN "ASTERISK"
    ELSE IF l.keyword /\ ~l.header_marker THEN "PROVISION"
    ELSE IF l.rate_word /\ l.length > 20 THEN "GENERAL"
    ELSE "skip"

\* The loop body of _extract_all_notes with _parse_line_for_note.
ParseLineForNote(l) ==
    IF l.length < 3 THEN "skip"
    ELSE IF l.leading_int THEN "NUMBERED"
    ELSE IF l.star THEN "ASTERISK"
    ELSE IF l.keyword THEN "PROVISION"
    ELSE "skip"

InitLines ==
    /\ note_line \in NoteLines
    /\ line_note = "pending"
    /\ line_by = "none"

IdleLines ==
    /\ note_line = [length |-> 2, leading_int |-> FALSE, long_rest |-> FALSE,
                    star |-> FALSE, keyword |-> FALSE,
                    header_marker |-> FALSE, rate_word |-> FALSE]
    /\ line_note = "pending"
    /\ line_by = "none"

ClassifyLineEnhanced ==
    /\ line_by = "none"
    /\ line_note' = LineKindEnhanced(note_line)
    /\ line_by' = "ocr_engine_enhanced"
    /\ UNCHANGED note_line
    /\ UNCHANGED <<aiVars, prodVars, dbVars, apiVars, dateVars, noteVars,
                   procVars, fixedVars, stateVars, taskVars, uploadVars, tableVars, confVars, multiVars, connVars>>

ClassifyLineProduction ==
    /\ line_by = "none"
    /\ line_note' = ParseLineForNote(note_line)
    /\ line_by' = "production_ocr_processor"
    /\ UNCHANGED note_line
    /\ UNCHANGED <<aiVars, prodVars, dbVars, apiVars, dateVars, noteVars,
                   procVars, fixedVars, stateVars, taskVars, uploadVars, tableVars, confVars, multiVars, connVars>>

-----------------------------------------------------------------------------
(* Table mode: ProductionOCRProcessor._extract_rates_from_tables and       *)
(* TableExtractor._extract_generic_table.  A text is modelled by the kinds *)
(* of its lines.                                                           *)

\* "header": holds at least 2 of ORIGIN, DESTINATION, RATE, CHARGE, in
\* capitals, and no number; "blank"; "section": a section header in
\* capitals; "data": a row in capitals that parses to a rate;
\* "data_mixed": such a row with lower-case letters.
TableLineKinds == {"header", "blank", "section", "data", "data_mixed"}

TableTexts == SeqUpTo(TableLineKinds, MaxTableLines)

\* The lines a header at line i is followed by in the scan of
\* _extract_rates_from_tables: range(i + 1, min(i + 20, len(lines))).
TableScanSpan == 20

\* str.isupper()
IsUpper(kind) == kind \in {"header", "section", "data"}

\* _extract_rates_from_tables: for every header line, every line of its
\* span that is not blank and parses to a rate; blank lines are skipped and
\* nothing ends the span early.  Lines are numbered from 1.
ExtractRatesFromTableText(lines) ==
    {<<i, j>> \in (1..Len(lines)) \X (1..Len(lines)) :
        /\ lines[i] = "header"
        /\ i < j
        /\ j <= i + TableScanSpan - 1
        /\ lines[j] \in {"data", "data_mixed"}}

\* _extract_generic_table: the first line in capitals or with columns is
\* the header; the rows after it are parsed, blank lines are skipped, and
\* the loop ends at a line in capitals more than 4 lines after the header.
ExtractGenericTable(lines) ==
    LET candidates == {i \in 1..Len(lines) : lines[i] # "blank"}
    IN IF candidates = {} THEN {}
       ELSE LET h == CHOOSE i \in candidates : \A k \in candidates : i <= k
                breaks == {i \in (h + 1)..Len(lines) :
                              lines[i] # "blank" /\ IsUpper(lines[i])
                              /\ i > h + 4}
            IN {<<h, j>> : j \in {i \in (h + 1)..Len(lines) :
                                     /\ lines[i] \in {"data", "data_mixed"}
                                     /\ \A b \in breaks : i < b}}

InitTables ==
    /\ table_lines \in TableTexts
    /\ table_rows = {}
    /\ table_by = "none"

IdleTables ==
    /\ table_lines = <<>>
    /\ table_rows = {}
    /\ table_by = "none"

RunExtractRatesFromTables ==
    /\ table_by = "none"
    /\ table_rows' = ExtractRatesFromTableText(table_lines)
    /\ table_by' = "production_ocr_processor"
    /\ UNCHANGED table_lines
    /\ UNCHANGED <<aiVars, prodVars, dbVars, apiVars, dateVars, noteVars,
                   procVars, fixedVars, stateVars, taskVars, uploadVars,
                   lineVars, confVars, multiVars, connVars>>

RunExtractGenericTable ==
    /\ table_by = "none"
    /\ table_rows' = ExtractGenericTable(table_lines)
    /\ table_by' = "table_extractor"
    /\ UNCHANGED table_lines
    /\ UNCHANGED <<aiVars, prodVars, dbVars, apiVars, dateVars, noteVars,
                   procVars, fixedVars, stateVars, taskVars, uploadVars,
                   lineVars, confVars, multiVars, connVars>>

-----------------------------------------------------------------------------
(* EnhancedTableExtractor._calculate_rate_table_confidence.                *)

\* row.get('rate'): "none" is a missing or empty value, "numeric" a value
\* matching ^\d+(\.\d{2})?$, "text" any other non-empty value.
RateValueKinds == {"none", "numeric", "text"}

\* located: row.get('origin') and row.get('destination')
ConfRows == [rate : RateValueKinds, located : BOOLEAN]

ConfTables == SeqUpTo(ConfRows, MaxTableRows)

CountRows(data, Test(_)) == Cardinality({i \in 1..Len(data) : Test(data[i])})

\* The thresholds 0.8 and 0.6, in tenths.
RateRatioTenths == 8
LocationRatioTenths == 6

\* count / len(data) > tenths / 10
RatioPasses(count, total, tenths) == count * 10 > tenths * total

\* The value returned is score / checks; it is kept as the pair.
CalculateRateTableConfidence(data) ==
    IF data = <<>> THEN <<0, 1>>
    ELSE LET HasRate(row) == row.rate # "none"
             HasLocations(row) == row.located
             IsNumeric(row) == row.rate = "numeric"
             n == Len(data)
             c1 == IF RatioPasses(CountRows(data, HasRate), n,
                                  RateRatioTenths) THEN 1 ELSE 0
             c2 == IF RatioPasses(CountRows(data, HasLocations), n,
                                  LocationRatioTenths) THEN 1 ELSE 0
             c3 == IF RatioPasses(CountRows(data, IsNumeric), n,
                                  RateRatioTenths) THEN 1 ELSE 0
         IN <<c1 + c2 + c3, 3>>

NoScore == <<0, 0>>

InitConf ==
    /\ conf_table \in ConfTables
    /\ conf_score = NoScore
    /\ conf_done = FALSE

IdleConf ==
    /\ conf_table = <<>>
    /\ conf_score = NoScore
    /\ conf_done = FALSE

RunCalculateConfidence ==
    /\ ~conf_done
    /\ conf_score' = CalculateRateTableConfidence(conf_table)
    /\ conf_done' = TRUE
    /\ UNCHANGED conf_table
    /\ UNCHANGED <<aiVars, prodVars, dbVars, apiVars, dateVars, noteVars,
                   procVars, fixedVars, stateVars, taskVars, uploadVars,
                   lineVars, tableVars, multiVars, connVars>>

-----------------------------------------------------------------------------
(* Several tasks of process_tariff_async at once (main.py).  Each call     *)
(* draws a fresh uuid4 as task_id; background_tasks_status and TEMP_FOLDER *)
(* are shared by all tasks.  The background tasks run on the event loop    *)
(* one at a time, in any order.                                            *)

TaskIds == 1..MaxTasks

\* The requests of ApiRequests with DEBUG off, one extracted record and a
\* sink that saves.
MultiRecord == CHOOSE x \in ExtractedRecords : TRUE

MultiRequests ==
    [file_ext : {"pdf", "exe"},
     debug : {FALSE},
     ocr : {"ok", "raises"},
     record : {MultiRecord},
     sink : {"id"}]

MultiIdleRequest ==
    [file_ext |-> "exe", debug |-> FALSE, ocr |-> "ok",
     record |-> MultiRecord, sink |-> "id"]

\* A background task that writes the entry and the files of the task
\* created last instead of its own.
RunTaskOn_LatestTask(mem, files, requests, pc, task_id) ==
    LET latest == CHOOSE t \in TaskIds :
                      /\ pc[t] # "none"
                      /\ \A u \in TaskIds : pc[u] # "none" => u <= t
        started == TaskEntry(TRUE, "processing", "preprocessing",
                             mem[latest].error)
        after == TaskBody(started, files[latest], requests[task_id])
    IN [mem |-> [mem EXCEPT ![latest] = after.mem],
        files |-> [files EXCEPT ![latest] = after.files]]

\* process_document_task(task_id, file_path, ...): every read and write of
\* background_tasks_status is at the key task_id, the result and error
\* files are named after task_id, and the file removed is file_path, the
\* upload of this task.
RunTaskOn(mem, files, requests, pc, task_id) ==
    LET started == TaskEntry(TRUE, "processing", "preprocessing",
                             mem[task_id].error)
        after == TaskBody(started, files[task_id], requests[task_id])
    IN [mem |-> [mem EXCEPT ![task_id] = after.mem],
        files |-> [files EXCEPT ![task_id] = after.files]]

InitMulti ==
    /\ multi_request \in [TaskIds -> MultiRequests]
    /\ multi_pc = [t \in TaskIds |-> "none"]
    /\ multi_mem = [t \in TaskIds |-> NoTaskEntry]
    /\ multi_files = [t \in TaskIds |-> NoTaskFiles]
    /\ multi_ran = 0

IdleMulti ==
    /\ multi_request = [t \in TaskIds |-> MultiIdleRequest]
    /\ multi_pc = [t \in TaskIds |-> "none"]
    /\ multi_mem = [t \in TaskIds |-> NoTaskEntry]
    /\ multi_files = [t \in TaskIds |-> NoTaskFiles]
    /\ multi_ran = 0

\* process_tariff_async, for the next upload
MultiProcessTariffAsync(t) ==
    /\ multi_pc[t] = "none"
    /\ \A u \in TaskIds : u < t => multi_pc[u] # "none"
    /\ IF multi_request[t].file_ext \notin ALLOWED_EXTENSIONS
       THEN /\ multi_pc' = [multi_pc EXCEPT ![t] = "rejected"]
            /\ UNCHANGED <<multi_mem, multi_files>>
       ELSE /\ multi_pc' = [multi_pc EXCEPT ![t] = "queued"]
            /\ multi_files' = [multi_files EXCEPT ![t].upload = TRUE]
            /\ multi_mem' = [multi_mem EXCEPT
                                ![t] = TaskEntry(TRUE, "processing", "",
                                                 FALSE)]
    /\ UNCHANGED <<multi_request, multi_ran>>
    /\ UNCHANGED <<aiVars, prodVars, dbVars, apiVars, dateVars, noteVars,
                   procVars, fixedVars, stateVars, taskVars, uploadVars,
                   lineVars, tableVars, confVars, connVars>>

\* process_document_task of one of the queued tasks
MultiRunDocumentTask(t) ==
    /\ multi_pc[t] = "queued"
    /\ LET after == RunTaskOn(multi_mem, multi_files, multi_request,
                              multi_pc, t)
       IN /\ multi_mem' = after.mem
          /\ multi_files' = after.files
    /\ multi_pc' = [multi_pc EXCEPT ![t] = "done"]
    /\ multi_ran' = t
    /\ UNCHANGED multi_request
    /\ UNCHANGED <<aiVars, prodVars, dbVars, apiVars, dateVars, noteVars,
                   procVars, fixedVars, stateVars, taskVars, uploadVars,
                   lineVars, tableVars, confVars, connVars>>

-----------------------------------------------------------------------------
(* CPTariffDatabaseFixed.get_database_connection                           *)
(* (cp_tariff_database_fixed.py): one action per iteration of its loop.    *)

max_retries == 3

\* How a call of pyodbc.connect ends: with a connection, or with an
\* exception whose text is one of these.
ConnectErrors ==
    {"timeout", "login failed", "no driver", "server not found"}
ConnectOutcomes == {"ok"} \cup ConnectErrors

\* self.last_error before the call: None, or the error of an earlier call.
NoError == "None"

ConnReturn(has_returned, attempt) ==
    [returned |-> has_returned, attempt |-> attempt]

ConnState(retry_count, last_error, ret) ==
    [retry_count |-> retry_count, last_error |-> last_error, ret |-> ret]

\* An except branch that does not count the failed attempt.
ConnectIteration_NoCount(st, attempt, connect_outcome) ==
    IF connect_outcome = "ok"
    THEN ConnState(st.retry_count, st.last_error, ConnReturn(TRUE, attempt))
    ELSE ConnState(st.retry_count, connect_outcome, st.ret)

\* One iteration of the while loop: the connection is returned, or the
\* failure is counted and stored, and None is returned once retry_count
\* has reached max_retries.
ConnectIteration(st, attempt, connect_outcome) ==
    IF connect_outcome = "ok"
    THEN ConnState(st.retry_count, st.last_error, ConnReturn(TRUE, attempt))
    ELSE LET retry_count == st.retry_count + 1
         IN ConnState(retry_count, connect_outcome,
                      IF retry_count >= max_retries
                      THEN ConnReturn(TRUE, 0) ELSE st.ret)

InitConn ==
    /\ conn_log = <<>>
    /\ conn_retry_count = 0
    /\ conn_last_error \in {NoError} \cup ConnectErrors
    /\ conn_return = ConnReturn(FALSE, 0)

IdleConn ==
    /\ conn_log = <<>>
    /\ conn_retry_count = 0
    /\ conn_last_error = NoError
    /\ conn_return = ConnReturn(FALSE, 0)

\* An iteration of `while retry_count < max_retries`.  The loop is never
\* left through its condition: the iteration that counts the last failure
\* returns None itself, so the `return None` after the loop is not reached.
ConnectAttempt ==
    /\ ~conn_return.returned
    /\ conn_retry_count < max_retries
    /\ \E connect_outcome \in ConnectOutcomes :
          LET st == ConnectIteration(
                        ConnState(conn_retry_count, conn_last_error,
                                  conn_return),
                        Len(conn_log) + 1, connect_outcome)
          IN /\ conn_log' = Append(conn_log, connect_outcome)
             /\ conn_retry_count' = st.retry_count
             /\ conn_last_error' = st.last_error
             /\ conn_return' = st.ret
    /\ UNCHANGED <<aiVars, prodVars, dbVars, apiVars, dateVars, noteVars,
                   procVars, fixedVars, stateVars, taskVars, uploadVars,
                   lineVars, tableVars, confVars, multiVars>>


-----------------------------------------------------------------------------
(* The specifications.                                                     *)
InitSpecAI == InitAI /\ IdleProd /\ IdleDb /\ IdleApi
    /\ IdleDates
    /\ IdleNotes
    /\ InitProc
    /\ IdleFixed
    /\ IdleStates
    /\ IdleTasks
    /\ IdleUploads
    /\ IdleLines
    /\ IdleTables
    /\ IdleConf
    /\ IdleMulti
    /\ IdleConn
NextAI == ProcessTariffData
SpecAI == InitSpecAI /\ [][NextAI]_vars

InitSpecRates == IdleAI /\ InitProd /\ IdleDb /\ IdleApi
    /\ IdleDates
    /\ IdleNotes
    /\ InitProc
    /\ IdleFixed
    /\ IdleStates
    /\ IdleTasks
    /\ IdleUploads
    /\ IdleLines
    /\ IdleTables
    /\ IdleConf
    /\ IdleMulti
    /\ IdleConn
NextRates == ProcessDocumentData
SpecRates == InitSpecRates /\ [][NextRates]_vars

InitSpecDb == IdleAI /\ IdleProd /\ InitDb /\ IdleApi
    /\ IdleDates
    /\ IdleNotes
    /\ InitProc
    /\ IdleFixed
    /\ IdleStates
    /\ IdleTasks
    /\ IdleUploads
    /\ IdleLines
    /\ IdleTables
    /\ IdleConf
    /\ IdleMulti
    /\ IdleConn
NextDb == SaveDocument
SpecDb == InitSpecDb /\ [][NextDb]_vars

InitSpecApi == IdleAI /\ IdleProd /\ IdleDb /\ InitApi
    /\ IdleDates
    /\ IdleNotes
    /\ InitProc
    /\ IdleFixed
    /\ IdleStates
    /\ IdleTasks
    /\ IdleUploads
    /\ IdleLines
    /\ IdleTables
    /\ IdleConf
    /\ IdleMulti
    /\ IdleConn
NextApi == ProcessTariff \/ ProcessDocumentTask \/ ProcessTariffDocument
SpecApi == InitSpecApi /\ [][NextApi]_vars

InitSpecDates == IdleAI /\ IdleProd /\ IdleDb /\ IdleApi /\ InitDates
    /\ IdleNotes
    /\ InitProc
    /\ IdleFixed
    /\ IdleStates
    /\ IdleTasks
    /\ IdleUploads
    /\ IdleLines
    /\ IdleTables
    /\ IdleConf
    /\ IdleMulti
    /\ IdleConn
NextDates == ParseTariffDate \/ ParseDate
SpecDates == InitSpecDates /\ [][NextDates]_vars

InitSpecNotes ==
    IdleAI /\ IdleProd /\ IdleDb /\ IdleApi /\ IdleDates /\ InitNotes
    /\ InitProc
    /\ IdleFixed
    /\ IdleStates
    /\ IdleTasks
    /\ IdleUploads
    /\ IdleLines
    /\ IdleTables
    /\ IdleConf
    /\ IdleMulti
    /\ IdleConn
NextNotes == RunExtractNotes \/ RunExtractNotesImproved
SpecNotes == InitSpecNotes /\ [][NextNotes]_vars

InitSpecProc ==
    IdleAI /\ IdleProd /\ IdleDb /\ IdleApi /\ IdleDates /\ IdleNotes
    /\ InitProc
    /\ IdleFixed
    /\ IdleStates
    /\ IdleTasks
    /\ IdleUploads
    /\ IdleLines
    /\ IdleTables
    /\ IdleConf
    /\ IdleMulti
    /\ IdleConn
NextProc == ProcessExtractedData
SpecProc == InitSpecProc /\ [][NextProc]_vars

InitSpecFixed ==
    IdleAI /\ IdleProd /\ IdleDb /\ IdleApi /\ IdleDates /\ IdleNotes
    /\ InitProc /\ InitFixed
    /\ IdleStates
    /\ IdleTasks
    /\ IdleUploads
    /\ IdleLines
    /\ IdleTables
    /\ IdleConf
    /\ IdleMulti
    /\ IdleConn
NextFixed == FixedSaveDocument
SpecFixed == InitSpecFixed /\ [][NextFixed]_vars

InitSpecStates ==
    IdleAI /\ IdleProd /\ IdleDb /\ IdleApi /\ IdleDates /\ IdleNotes
    /\ InitProc /\ IdleFixed /\ InitStates
    /\ IdleTasks
    /\ IdleUploads
    /\ IdleLines
    /\ IdleTables
    /\ IdleConf
    /\ IdleMulti
    /\ IdleConn
NextStates == AIExtractState \/ EnhancedExtractState
SpecStates == InitSpecStates /\ [][NextStates]_vars

InitSpecTasks ==
    IdleAI /\ IdleProd /\ IdleDb /\ IdleApi /\ IdleDates /\ IdleNotes
    /\ InitProc /\ IdleFixed /\ IdleStates /\ InitTasks
    /\ IdleUploads
    /\ IdleLines
    /\ IdleTables
    /\ IdleConf
    /\ IdleMulti
    /\ IdleConn
NextTasks ==
    ProcessTariffAsync \/ RunDocumentTask \/ GetTaskStatus \/ DebugCleanup
SpecTasks == InitSpecTasks /\ [][NextTasks]_vars

\* The tasks over more than a day: the files of a task grow older than the
\* 24 hours of cleanup_temp_files.
NextRetention == NextTasks \/ DayPasses
SpecRetention == InitSpecTasks /\ [][NextRetention]_vars

\* The event loop runs a queued background task once the response of
\* process_tariff_async is sent, and the client polls until it sees a
\* terminal status.
FairTasks ==
    SpecTasks /\ WF_vars(RunDocumentTask) /\ WF_vars(GetTaskStatus)

InitSpecUploads ==
    IdleAI /\ IdleProd /\ IdleDb /\ IdleApi /\ IdleDates /\ IdleNotes
    /\ InitProc /\ IdleFixed /\ IdleStates /\ IdleTasks /\ InitUploads
    /\ IdleLines
    /\ IdleTables
    /\ IdleConf
    /\ IdleMulti
    /\ IdleConn
NextUploads == UploadProcessTariff \/ UploadProcessTariffAsync
SpecUploads == InitSpecUploads /\ [][NextUploads]_vars

InitSpecLines ==
    IdleAI /\ IdleProd /\ IdleDb /\ IdleApi /\ IdleDates /\ IdleNotes
    /\ InitProc /\ IdleFixed /\ IdleStates /\ IdleTasks /\ IdleUploads
    /\ InitLines
    /\ IdleTables
    /\ IdleConf
    /\ IdleMulti
    /\ IdleConn
NextLines == ClassifyLineEnhanced \/ ClassifyLineProduction
SpecLines == InitSpecLines /\ [][NextLines]_vars

InitSpecTables ==
    IdleAI /\ IdleProd /\ IdleDb /\ IdleApi /\ IdleDates /\ IdleNotes
    /\ InitProc /\ IdleFixed /\ IdleStates /\ IdleTasks /\ IdleUploads
    /\ IdleLines /\ InitTables
    /\ IdleConf
    /\ IdleMulti
    /\ IdleConn
NextTables == RunExtractRatesFromTables \/ RunExtractGenericTable
SpecTables == InitSpecTables /\ [][NextTables]_vars

InitSpecConf ==
    IdleAI /\ IdleProd /\ IdleDb /\ IdleApi /\ IdleDates /\ IdleNotes
    /\ InitProc /\ IdleFixed /\ IdleStates /\ IdleTasks /\ IdleUploads
    /\ IdleLines /\ IdleTables /\ InitConf
    /\ IdleMulti
    /\ IdleConn
NextConf == RunCalculateConfidence
SpecConf == InitSpecConf /\ [][NextConf]_vars

InitSpecMulti ==
    IdleAI /\ IdleProd /\ IdleDb /\ IdleApi /\ IdleDates /\ IdleNotes
    /\ InitProc /\ IdleFixed /\ IdleStates /\ IdleTasks /\ IdleUploads
    /\ IdleLines /\ IdleTables /\ IdleConf /\ InitMulti
    /\ IdleConn
NextMulti ==
    \/ \E t \in TaskIds : MultiProcessTariffAsync(t)
    \/ \E t \in TaskIds : MultiRunDocumentTask(t)
SpecMulti == InitSpecMulti /\ [][NextMulti]_vars

InitSpecConn ==
    IdleAI /\ IdleProd /\ IdleDb /\ IdleApi /\ IdleDates /\ IdleNotes
    /\ InitProc /\ IdleFixed /\ IdleStates /\ IdleTasks /\ IdleUploads
    /\ IdleLines /\ IdleTables /\ IdleConf /\ IdleMulti /\ InitConn
NextConn == ConnectAttempt
SpecConn == InitSpecConn /\ [][NextConn]_vars

-----------------------------------------------------------------------------
(* Properties of the AI pipeline (under SpecAI).                            *)

\* The extracted fields of a returned record, without its metadata.
DataOf(rec) ==
    [header |-> rec.header, commodities |-> rec.commodities,
     rates |-> rec.rates, notes |-> rec.notes,
     origin_info |-> rec.origin_info,
     destination_info |-> rec.destination_info]

\* The AI branch of process_tariff_data was taken.
AIBranchTaken == returned /\ ai_available /\ ~InsufficientText(raw_text)

\* C1: when the AI step (the try block: the AI call and the merge of what
\* it returned) raises, the returned record's header, commodities, rates
\* and notes are exactly those of the rule-based extraction.
C1_FallbackIsRuleBasedOnly ==
    (AIBranchTaken
        /\ AIStepRaises(ai_outcome, rule_based_data, ai_enhanced_data))
    => /\ final_data.header = rule_based_data.header
       /\ final_data.commodities = rule_based_data.commodities
       /\ final_data.rates = rule_based_data.rates
       /\ final_data.notes = rule_based_data.notes

\* C2: whenever the AI call fails (timeout, network error, a response that
\* is not valid JSON) the returned record's extraction_method is
\* RULE_BASED_FALLBACK.
C2_FailureRecordsFallback ==
    (AIBranchTaken /\ ai_outcome \in {"timeout", "network_error", "invalid_json"})
    => final_data.extraction_method = "RULE_BASED_FALLBACK"

\* A header field holds a present value: the key is there and its value is
\* not the empty string.
Present(v) == v.t = "int" \/ (v.t = "str" /\ v.s # "")

\* C3: every header field the rule-based result holds with a present value
\* has that same value in the merged header, whatever the AI holds for it.
C3_RuleHeaderNeverOverwritten ==
    (AIBranchTaken /\ final_data.extraction_method = "AI_ENHANCED")
    => \A k \in HeaderFields :
          Present(rule_based_data.header[k])
          => final_data.header[k] = rule_based_data.header[k]

\* C4: merging with an absent (None or empty) AI result returns a record
\* equal to the rule-based one in every field.
C4_MergeAbsentIsRuleBased ==
    (AIBranchTaken
        /\ ~AIEnhancedExtraction(ai_outcome, ai_enhanced_data).raised
        /\ IsEmptyDict(AIEnhancedExtraction(ai_outcome, ai_enhanced_data).value))
    => DataOf(final_data) = rule_based_data

\* C4's case: the merge ran on an empty AI result for a document whose
\* rule-based result has a header field, a rate and a note.
C4_Witness ==
    /\ AIBranchTaken
    /\ ai_outcome = "invalid_json"
    /\ rule_based_data.header.item_number = StrV("70001")
    /\ rule_based_data.rates # <<>>
    /\ rule_based_data.notes # <<>>
    /\ final_data.extraction_method = "AI_ENHANCED"

\* The merge ran and returned: the dict it merged into the rule-based result.
MergeReturned == AIBranchTaken /\ final_data.extraction_method = "AI_ENHANCED"

AIValue == AIEnhancedExtraction(ai_outcome, ai_enhanced_data).value

\* The rates and the notes of the AI result; none when it has no such key.
AIRatesOf(ai) == IF "rates" \in ai.keys THEN ai.rates ELSE <<>>
AINotesOf(ai) == IF "notes" \in ai.keys THEN ai.notes ELSE <<>>

\* C22: the merged rates are the AI rates when the AI result has strictly
\* more rate entries than the rule-based result, and the rule-based rates
\* when it has fewer or equally many.
C22_RatesByStrictlyMore ==
    MergeReturned
    => IF Len(AIRatesOf(AIValue)) > Len(rule_based_data.rates)
       THEN final_data.rates = AIRatesOf(AIValue)
       ELSE final_data.rates = rule_based_data.rates

\* C22's case: both results hold one rate, the two rates differ, and the
\* merged record keeps the rule-based one.
C22_Witness ==
    /\ MergeReturned
    /\ Len(rule_based_data.rates) = 1
    /\ Len(AIRatesOf(AIValue)) = 1
    /\ AIRatesOf(AIValue) # rule_based_data.rates
    /\ final_data.rates = rule_based_data.rates

\* The subsequence of the notes whose text is in none of the given texts.
RECURSIVE NotesNotIn(_, _)
NotesNotIn(notes, texts) ==
    IF notes = <<>> THEN <<>>
    ELSE (IF Head(notes).text \in texts THEN <<>> ELSE <<Head(notes)>>)
         \o NotesNotIn(Tail(notes), texts)

\* C23: the merged notes are the rule-based notes, unmodified and in order,
\* followed by exactly the AI notes whose text is the text of no rule-based
\* note.
C23_NotesUnion ==
    MergeReturned
    => final_data.notes
          = rule_based_data.notes
            \o NotesNotIn(AINotesOf(AIValue),
                          {rule_based_data.notes[i].text :
                              i \in 1..Len(rule_based_data.notes)})

\* C23's case: the AI result repeats the text of the rule-based note, and
\* the merged notes are the rule-based note alone.
C23_Witness ==
    /\ MergeReturned
    /\ Len(rule_based_data.notes) = 1
    /\ Len(AINotesOf(AIValue)) >= 1
    /\ AINotesOf(AIValue)[1].text = rule_based_data.notes[1].text
    /\ final_data.notes = rule_based_data.notes

-----------------------------------------------------------------------------
(* Properties of rate extraction (under SpecRates).                        *)

\* The bounds of _clean_rate_amount (0.01 and 10000), in cents.
MinRateCents == 1
MaxRateCents == 1000000

\* C8: every rate of the sequence rate extraction returns has a non-empty
\* origin, a non-empty destination and an amount v with 0.01 < v <= 10000.00.
C8_RatesWellFormed ==
    prod_returned
    => \A i \in 1..Len(prod_result.rates) :
          /\ prod_result.rates[i].origin # ""
          /\ prod_result.rates[i].destination # ""
          /\ AmountCents(prod_result.rates[i].rate_amount) > MinRateCents
          /\ AmountCents(prod_result.rates[i].rate_amount) <= MaxRateCents

\* The entries in the order the scans discover them: the valid candidates of
\* the line scan, then the valid lines of the table scan.
RECURSIVE Discovered(_, _, _)
Discovered(cands, method, i) ==
    IF i > Len(cands) THEN <<>>
    ELSE (IF ValidateLocations(cands[i].origin, cands[i].destination)
          THEN <<RateEntry(cands[i], method, i)>> ELSE <<>>)
         \o Discovered(cands, method, i + 1)

DiscoveryOrder ==
    Discovered(ocr_input.text_candidates, "line", 1)
    \o Discovered(ocr_input.table_candidates, "table", 1)

\* C9: the rates of the returned record hold no two entries with the same
\* (origin, destination, rate_amount) triple, and each entry kept is the
\* first entry with its triple in discovery order.
C9_RatesDeduplicatedFirstWins ==
    (prod_returned /\ ocr_input.raw_text = DocText)
    => LET rates == prod_result.rates
           d == DiscoveryOrder
       IN /\ \A i, j \in 1..Len(rates) :
                 i # j => ~SameTriple(rates[i], rates[j])
          /\ \A i \in 1..Len(rates) :
                 \E k \in 1..Len(d) :
                    /\ d[k] = rates[i]
                    /\ \A m \in 1..(k - 1) : ~SameTriple(d[m], d[k])

\* C9's case: the line scan and the table scan both found the same triple
\* and the returned record keeps the entry of the line scan only.
C9_Witness ==
    /\ prod_returned
    /\ Len(DiscoveryOrder) = 2
    /\ SameTriple(DiscoveryOrder[1], DiscoveryOrder[2])
    /\ DiscoveryOrder[2].extraction_method = "table"
    /\ prod_result.rates = <<DiscoveryOrder[1]>>

\* C20: rate deduplication is idempotent: applied to the rates of the
\* returned record, which are its own output, it returns the same entries
\* in the same order.
C20_DeduplicationIdempotent ==
    prod_returned
    => DeduplicateRates(prod_result.rates) = prod_result.rates

\* C20's cases: the first pass dropped a duplicate, or it kept two entries
\* whose order the second pass has to keep.
C20_Witness ==
    /\ prod_returned
    /\ Len(prod_result.rates) = 2
    /\ ~SameTriple(prod_result.rates[1], prod_result.rates[2])
    /\ DeduplicateRates(prod_result.rates) = prod_result.rates

C20_WitnessDropped ==
    /\ prod_returned
    /\ Len(prod_result.rates) < Len(DiscoveryOrder)

\* C10: for a missing or empty raw text the returned record has empty
\* rates, commodities and notes and extraction_success false (stated for
\* the record of AIDataProcessor.process_tariff_data, under SpecAI).
C10_EmptyTextGivesEmptyRecord ==
    (returned /\ raw_text \in {NoneText, ""})
    => /\ final_data.rates = <<>>
       /\ final_data.commodities = <<>>
       /\ final_data.notes = <<>>
       /\ final_data.extraction_success = "false"

-----------------------------------------------------------------------------
(* Properties of the save (under SpecDb).                                  *)

AllRows(rows) == 1..Len(rows)

\* C5: after a save attempt either the document row and every commodity,
\* rate and note row are committed and an identifier is returned, or
\* nothing is committed and a failure (None or an exception) is signalled.
C5_SaveAllOrNothing ==
    save_result # "pending"
    => \/ /\ save_result = "id"
          /\ db_committed.document
          /\ db_committed.commodities = AllRows(save_input.commodities)
          /\ db_committed.rates = AllRows(save_input.rates)
          /\ db_committed.notes = AllRows(save_input.notes)
       \/ /\ save_result \in {"none", "raises"}
          /\ db_committed = NothingCommitted

-----------------------------------------------------------------------------
(* Properties of the endpoints (under SpecApi).                            *)

\* The request reached the persistence step and persistence failed: the
\* import of the sink or its save raised, or the save returned no identifier.
PersistenceFailed ==
    /\ api_handler # "none"
    /\ IF api_handler = "process_tariff_document"
       THEN /\ api_request.ocr = "ok"
            /\ (~DatabaseExported \/ api_request.sink \in {"none", "raises"})
       ELSE /\ api_request.file_ext \in ALLOWED_EXTENSIONS
            /\ ~StagesRaise(api_request)
            /\ api_request.sink \in {"none", "raises"}

\* C6: when persistence fails the response still holds the extracted record
\* (header, commodities, rates, notes).
C6_RecordSurvivesSinkFailure ==
    PersistenceFailed
    => /\ api_response.kind = "json"
       /\ api_response.extracted = "record"
       /\ api_response.extracted_value.header = api_request.record.header
       /\ api_response.extracted_value.commodities
             = api_request.record.commodities
       /\ api_response.extracted_value.rates = api_request.record.rates
       /\ api_response.extracted_value.notes = api_request.record.notes

\* C7: when persistence fails the response holds a database_error field.
C7_DatabaseErrorReported ==
    PersistenceFailed => api_response.database_error # "absent"

-----------------------------------------------------------------------------
(* Properties of date parsing (under SpecDates).                           *)

\* The month abbreviations of the calendar, in order.
MonthNames ==
    <<"JAN", "FEB", "MAR", "APR", "MAY", "JUN",
      "JUL", "AUG", "SEP", "OCT", "NOV", "DEC">>

MonthAbbreviations == {MonthNames[i] : i \in 1..Len(MonthNames)}

MonthOfName(w) == CHOOSE i \in 1..Len(MonthNames) : MonthNames[i] = w

\* The string has one of the accepted layouts.
MatchesAPattern(t) == t.form \notin {"none", "empty", "text"}

\* The components of the string form a calendar date: a month name or
\* number that exists and a day of that month.
FormsValidDate(t) ==
    /\ MatchesAPattern(t)
    /\ IF t.word # "" THEN t.word \in MonthAbbreviations
       ELSE ToInt(t.a) >= 1 /\ ToInt(t.a) <= 12
    /\ LET m == IF t.word # "" THEN MonthOfName(t.word) ELSE ToInt(t.a)
       IN ToInt(t.b) >= 1 /\ ToInt(t.b) <= DaysInMonth(ToInt(t.y), m)

\* C11: for a string that matches no accepted pattern, or whose components
\* do not form a valid calendar date (an invalid month or day), date
\* normalisation returns None.
C11_InvalidDateGivesNone ==
    ~FormsValidDate(date_str)
    => /\ tariff_date \in {PendingDate, NoDate}
       /\ parsed_date \in {PendingDate, NoDate}

\* The three renderings of a calendar date.
RenderDate(y, m, d, fmt) ==
    CASE fmt = "MON DD, YYYY" ->
             DateText("mon_comma", MonthNames[m], <<>>, ZFill2(Digits(d)),
                      Digits(y))
      [] fmt = "MM/DD/YYYY" ->
             DateText("slash", "", ZFill2(Digits(m)), ZFill2(Digits(d)),
                      Digits(y))
      [] OTHER ->
             DateText("ymd", "", ZFill2(Digits(m)), ZFill2(Digits(d)),
                      Digits(y))

DateFormats == {"MON DD, YYYY", "MM/DD/YYYY", "YYYY-MM-DD"}

SampleDates ==
    {dt \in {2023, 2024} \X {2, 7} \X {4, 22, 29} :
        dt[3] <= DaysInMonth(dt[1], dt[2])}

\* C12: each of the three renderings of a valid calendar date normalises to
\* the ISO string YYYY-MM-DD of that date.
C12_RenderingsNormaliseAlike ==
    \A dt \in SampleDates : \A fmt \in DateFormats :
        date_str = RenderDate(dt[1], dt[2], dt[3], fmt)
        => LET iso == IsoDate(Digits(dt[1]), ZFill2(Digits(dt[2])),
                              ZFill2(Digits(dt[3])))
           IN /\ tariff_date \in {PendingDate, iso}
              /\ parsed_date \in {PendingDate, iso}

\* C12's case: the MON DD, YYYY rendering of 29 February 2024 has been
\* parsed by both functions.
C12_Witness ==
    /\ date_str = RenderDate(2024, 2, 29, "MON DD, YYYY")
    /\ tariff_date = IsoDate(<<2, 0, 2, 4>>, <<0, 2>>, <<2, 9>>)
    /\ parsed_date = IsoDate(<<2, 0, 2, 4>>, <<0, 2>>, <<2, 9>>)

-----------------------------------------------------------------------------
(* Properties of note extraction (under SpecNotes).                        *)

\* C13: the sort_order values of the notes of a record are strictly
\* increasing along the notes sequence.
C13_SortOrderStrictlyIncreasing ==
    notes_by # "none"
    => \A i, j \in 1..Len(notes_out) :
          i < j => notes_out[i].sort_order < notes_out[j].sort_order

-----------------------------------------------------------------------------
(* Properties of EnhancedDataProcessor (under SpecProc).                   *)

\* C14: the record returned for a document is the record a new instance
\* returns for it, whatever documents the instance processed before.
C14_RecordDependsOnDocumentOnly ==
    proc_calls > 0
    => proc_record = ProcessExtractedDataResult(NewProcessingStats, proc_doc)

\* C18: when the revision of the raw header is present but is not the text
\* of an integer, the processed header has no revision.
C18_UnparsableRevisionOmitted ==
    (/\ proc_calls > 0
     /\ ~proc_record.raised
     /\ proc_doc.revision.t = "str"
     /\ proc_doc.revision.cs # <<>>
     /\ IntRaises(Strip(proc_doc.revision.cs)))
    => proc_record.header.revision = RevAbsent

\* C25: an exception raised on one rate, commodity or note row stays
\* within that row: the call returns a record, and the record holds every
\* row that parses.
C25_RowExceptionsContained ==
    proc_calls > 0
    => /\ ~proc_record.raised
       /\ proc_record.rates = CountOf(proc_doc.rates, "rate")
       /\ proc_record.commodities = CountOf(proc_doc.commodities, TRUE)
       /\ Len(proc_record.notes)
             = CountOf(proc_doc.notes, "ordered")
               + CountOf(proc_doc.notes, "unordered")

-----------------------------------------------------------------------------
(* Properties of the sink of cp_tariff_database_fixed.py (under SpecFixed) *)

\* C17: a record that has its four sections but no item_number in its
\* header is saved when the database works: save_document returns the id of
\* the document and the transaction is committed.
C17_UnidentifiedRecordSaved ==
    (/\ fixed_result # "pending"
     /\ fixed_input.has_required_keys
     /\ ~Truthy(fixed_input.item_number)
     /\ fixed_input.connection = "ok"
     /\ fixed_input.main_document = "id"
     /\ fixed_input.children_ok
     /\ fixed_input.commit_ok)
    => (fixed_result = "id" /\ fixed_committed)

-----------------------------------------------------------------------------
(* Properties of the state/province lookup (under SpecStates).             *)

\* Python's None as a returned value.
NoneV == [t |-> "none", n |-> 0, s |-> ""]

\* The positions of the words of the location that are in the table of 13
\* Canadian and 50 US codes once upper-cased.
CodePositions ==
    {i \in 1..Len(location) : Upper(location[i]) \in state_province_codes}

\* C19: the lookup returns the first word of the upper-cased location that
\* is in the table, and None when no word is in the table.
C19_FirstCodeOrNone ==
    state_code # PendingState
    => IF CodePositions = {} THEN state_code = NoneV
       ELSE \E i \in CodePositions :
               /\ \A j \in CodePositions : i <= j
               /\ state_code = StrV(Upper(location[i]))

-----------------------------------------------------------------------------
(* Properties of the asynchronous endpoint (under SpecTasks and FairTasks) *)

PollIsTerminal == poll_response.status \in {"completed", "error"}

\* C15: once process_tariff_async has accepted a document, a poll of its
\* task status eventually reports completed or error.
C15_PollEventuallyTerminal == (task_pc = "queued") ~> PollIsTerminal

\* C15's case: the task was accepted and ran, and a poll reported a
\* terminal status.
C15_Witness ==
    /\ task_pc = "done"
    /\ poll_response.status_code = 200
    /\ PollIsTerminal

\* C16: a task-status response that reports completed has a result field.
\* No response of this revision reports completed: StagesRaise holds of
\* every request, so the task ends in its except branch and the result
\* file is never written.
C16_CompletedCarriesResult ==
    poll_response.status = "completed" => poll_response.result

\* C28 as stated: once a poll has reported completed or error, every later
\* poll of the task reports that same status.
C28_TerminalStatusStable ==
    poll_reported # "" => poll_response.status = poll_reported

\* C28, amended: once a poll has reported completed or error, every later
\* poll reports that same status or answers 404; no poll reports the other
\* terminal status or processing.
C28_TerminalStatusStableOrGone ==
    poll_reported # "" =>
        \/ /\ poll_response.status_code = 200
           /\ poll_response.status = poll_reported
        \/ poll_response.status_code = 404

\* C28's case: a poll reported error, the statuses in memory were cleared
\* and a later poll read the error file.
C28_Witness ==
    /\ poll_reported = "error"
    /\ ~task_mem.present
    /\ poll_response.status = "error"
    /\ poll_response.error
    /\ task_files.error

\* The case the statement of C28 leaves out: the error was reported, the
\* files were removed after 24 hours and the poll answers 404.
C28_WitnessGone ==
    /\ poll_reported = "error"
    /\ poll_response.status_code = 404

-----------------------------------------------------------------------------
(* Properties of the validation of uploads (under SpecUploads).            *)

\* The extension of a file name: its part after the last dot, in lower
\* case; a file without a name has the empty extension.
ExtensionOf(filename) ==
    IF filename = <<>> THEN "" ELSE Lower(filename[Len(filename)])

-----------------------------------------------------------------------------
(* Properties of the classification of lines (under SpecLines).            *)

\* The first rule a line matches, in the order NUMBERED (a leading integer),
\* ASTERISK (a leading '*'), PROVISION (a provision keyword and no header
\* marker), GENERAL (RATE, CHARGE or CAR and more than 20 characters);
\* "skip" for a line that matches none.
FirstRule(l) ==
    IF l.leading_int THEN "NUMBERED"
    ELSE IF l.star THEN "ASTERISK"
    ELSE IF l.keyword /\ ~l.header_marker THEN "PROVISION"
    ELSE IF l.rate_word /\ l.length > 20 THEN "GENERAL"
    ELSE "skip"

\* C24: a line yields one note of the type of the first rule it matches,
\* and no note when it matches no rule.
C24_FirstMatchingRule ==
    line_by # "none" => line_note = FirstRule(note_line)

-----------------------------------------------------------------------------
(* Properties of table mode (under SpecTables).                            *)

\* C26: a row yields data for the table of a header only when no blank row
\* and no section header lies between the header and the row.
C26_DataEndsAtBoundary ==
    \A hr \in table_rows :
        \A k \in (hr[1] + 1)..(hr[2] - 1) :
            table_lines[k] \notin {"blank", "section"}

-----------------------------------------------------------------------------
(* Properties of the rate-table confidence (under SpecConf).               *)

AtLeastTenths(count, total, tenths) == count * 10 >= tenths * total

ChecksAtLeast(data) ==
    LET n == Len(data)
        rated == Cardinality({i \in 1..n : data[i].rate # "none"})
        located == Cardinality({i \in 1..n : data[i].located})
        numeric == Cardinality({i \in 1..n : data[i].rate = "numeric"})
    IN (IF AtLeastTenths(rated, n, 8) THEN 1 ELSE 0)
       + (IF AtLeastTenths(located, n, 6) THEN 1 ELSE 0)
       + (IF AtLeastTenths(numeric, rated, 8) THEN 1 ELSE 0)

\* C27: the confidence of a table with rows is the mean of three checks,
\* each satisfied when its ratio is at least its threshold (80% of the rows
\* have a rate, 60% have both locations, 80% of the rate values are plain
\* decimals), and so lies between 0 and 1.
C27_ConfidenceIsMeanOfChecks ==
    (conf_done /\ conf_table # <<>>) =>
        /\ conf_score = <<ChecksAtLeast(conf_table), 3>>
        /\ conf_score[1] >= 0
        /\ conf_score[1] <= conf_score[2]

-----------------------------------------------------------------------------
(* Properties of several tasks at once (under SpecMulti).                  *)

\* What a status query would report for a task.
ReportedFor(mem, files, t) == GetTaskStatusResponse(mem[t], files[t])

\* C29: a step of the background task of one task_id changes neither the
\* status entry, nor the files, nor the reported status of any other task.
C29_TasksIsolated ==
    [][\A t \in TaskIds :
          (multi_ran' # multi_ran \/ multi_pc' # multi_pc) /\ multi_ran' # t
          /\ multi_pc'[t] = multi_pc[t]
          => /\ multi_mem'[t] = multi_mem[t]
             /\ multi_files'[t] = multi_files[t]
             /\ ReportedFor(multi_mem', multi_files', t)
                = ReportedFor(multi_mem, multi_files, t)]_vars

\* C29's case: the task created first is still queued and reported as
\* processing after the task created later has run and failed.
C29_Witness ==
    \E t, u \in TaskIds :
        /\ t < u
        /\ multi_pc[t] = "queued"
        /\ multi_pc[u] = "done"
        /\ multi_ran = u
        /\ ReportedFor(multi_mem, multi_files, t).status = "processing"
        /\ ReportedFor(multi_mem, multi_files, u).status = "error"

-----------------------------------------------------------------------------
(* Properties of get_database_connection (under SpecConn).                 *)

FailedAttempts(log) == {i \in 1..Len(log) : log[i] # "ok"}

\* C30: at most 3 connection attempts are made; the connection returned is
\* the one of the first attempt that succeeded; after 3 failed attempts in
\* a row the call has returned None and last_error is the third failure.
C30_AtMostThreeAttempts ==
    /\ Len(conn_log) <= 3
    /\ \A i \in 1..Len(conn_log) :
          conn_log[i] = "ok" =>
              /\ i = Len(conn_log)
              /\ conn_return = [returned |-> TRUE, attempt |-> i]
    /\ (conn_return.returned /\ conn_return.attempt # 0) =>
          /\ conn_return.attempt = Len(conn_log)
          /\ conn_log[conn_return.attempt] = "ok"
          /\ FailedAttempts(conn_log) = 1..(Len(conn_log) - 1)
    /\ Cardinality(FailedAttempts(conn_log)) = 3 =>
          /\ conn_return = [returned |-> TRUE, attempt |-> 0]
          /\ conn_last_error = conn_log[3]
    /\ (conn_return.returned /\ conn_return.attempt = 0) =>
          /\ Len(conn_log) = 3
          /\ FailedAttempts(conn_log) = 1..3

\* C30's case: three attempts failed with different errors, None was
\* returned and last_error holds the third.
C30_Witness ==
    /\ Len(conn_log) = 3
    /\ conn_log[1] = "timeout"
    /\ conn_log[2] = "login failed"
    /\ conn_log[3] = "no driver"
    /\ conn_return = [returned |-> TRUE, attempt |-> 0]
    /\ conn_last_error = "no driver"

=============================================================================
